---- MODULE Spec2Model ----
(***************************************************************************)
(* A model of reflektor: the Library facade (reflektor.go) over the Linux  *)
(* in-memory ELF backend (package memmod).                                 *)
(*                                                                         *)
(* Three specifications share the module:                                  *)
(*   SpecLib  - threads calling Library.CallExport / Library.Close on one  *)
(*              Library, with both sync.RWMutex objects modelled;          *)
(*   SpecCall - Module.CallExport as a function of (name, symbol table);   *)
(*   SpecELF  - memmod.LoadLibrary, step by step, over bounded ELF inputs. *)
(* Names are sequences of one-character strings.  Machine words are        *)
(* scaled: a byte holds ByteBits bits, so that an 8-byte word fits the     *)
(* model checker's integers while keeping modular (wrap-around) sums.      *)
(***************************************************************************)
EXTENDS Integers, Sequences, FiniteSets, TLC

VARIABLES
    \* ---- SpecLib: one Library used by several threads
    pc,         \* thread -> position in CallExport / Close
    name,       \* thread -> argument of the running CallExport
    cidx,       \* thread -> index of the candidate being resolved
    addr,       \* thread -> resolved export address (0: none)
    res,        \* thread -> error value of the call that just returned
    late,       \* thread -> the running call began after a Close had returned
    libMu,      \* Library.mu
    libClosed,  \* Library.closed
    libModule,  \* Library.module: "mod" or "nil"
    modMu,      \* Module.mu
    module,     \* the Module object
    hist,       \* counters: Module.Free calls, munmap calls, Close returned
    \* ---- SpecCall: one Module.CallExport call
    call,       \* [name, mod, done, err, invoked, lookups]
    \* ---- SpecELF: one memmod.LoadLibrary call
    elf,        \* the input: raw bytes and what debug/elf parsed from them
    ld,         \* the loader: stage, mapping, memory, protections, result
    \* ---- SpecDarwin: one darwin Module used by several threads
    dy,         \* image, dyld environment, Module, callers, dyld state, history
    \* ---- SpecShm: one LoadLibrary call of memmod/memmod_linux.go
    shm,        \* stage, descriptor, /dev/shm objects, bytes written, result
    \* ---- SpecDepack: one maybeDepackAP32 call
    ap,         \* input, decoder state (apdsState), accesses made, result
    \* ---- SpecResolve: one symbolResolver and the process it looks into
    rs          \* cache, runtime modules, loaded libraries, calls made, result

libVars == <<pc, name, cidx, addr, res, late, libMu, libClosed, libModule, modMu, module, hist>>
callVars == <<call>>
elfVars == <<elf, ld>>
dyVars == <<dy>>
shmVars == <<shm>>
apVars == <<ap>>
rsVars == <<rs>>
vars == <<libVars, callVars, elfVars, dyVars, shmVars, apVars, rsVars>>

\* ------------------------------------------------------------------ bounds
NumThreads == 3
MaxCount == 2
MaxNameLen == 3
MaxCalls == 2
MaxDeps == 1
MaxEintr == 1

Threads == 1..NumThreads
None == 0

\* ------------------------------------------------------------------ strings
WhiteSpace == {" ", "\t", "\n"}

RECURSIVE TrimLeft(_)
TrimLeft(s) ==
    IF s = <<>> THEN <<>>
    ELSE IF Head(s) \in WhiteSpace THEN TrimLeft(Tail(s)) ELSE s

RECURSIVE TrimRight(_)
TrimRight(s) ==
    IF s = <<>> THEN <<>>
    ELSE IF s[Len(s)] \in WhiteSpace THEN TrimRight(SubSeq(s, 1, Len(s) - 1)) ELSE s

\* strings.TrimSpace
TrimSpace(s) == TrimRight(TrimLeft(s))

\* strings.HasPrefix(name, "_")
HasUnderscorePrefix(s) == s # <<>> /\ Head(s) = "_"

\* Module.CallExport: candidates := []string{name}, then the underscore variant
Candidates_AlwaysPrefix(n) == <<n, <<"_">> \o n>>

Candidates(n) ==
    IF HasUnderscorePrefix(n) THEN <<n, Tail(n)>> ELSE <<n, <<"_">> \o n>>

\* ------------------------------------------------------------------ sync.RWMutex
\* readers: threads holding the read lock; writer: the thread that has
\* announced Lock (it holds the writers' mutex); held: that writer owns the
\* lock; rblocked: readers that arrived after the announcement and sleep.
RWInit == [readers |-> {}, writer |-> None, held |-> FALSE, rblocked |-> {}]

\* RLock enters at once unless a writer has announced itself
RLockEnters_Exclusive(mu) == mu.writer = None /\ mu.readers = {}

RLockEnters(mu) == mu.writer = None

RLock(mu, t) ==
    IF RLockEnters(mu)
    THEN [mu EXCEPT !.readers = @ \cup {t}]
    ELSE [mu EXCEPT !.rblocked = @ \cup {t}]

RUnlock_Keeps(mu, t) == mu

RUnlock(mu, t) == [mu EXCEPT !.readers = @ \ {t}]

\* Lock owns the mutex only once every active reader has left
LockAcquires_NoWait(mu) == TRUE

LockAcquires(mu) == mu.readers = {}

LockAnnounce(mu, t) == [mu EXCEPT !.writer = t, !.held = LockAcquires(mu)]

\* Unlock wakes every reader that queued behind the writer
Unlock(mu) == [readers |-> mu.rblocked, writer |-> None, held |-> FALSE, rblocked |-> {}]

\* ------------------------------------------------------------------ Module
NilErr == "nil"

\* Module.ProcAddressByName under the read lock (after the name was trimmed)
ProcLookup(m, n) ==
    IF m.closed THEN [addr |-> 0, err |-> "library is closed"]
    ELSE IF m.mapLen = 0 THEN [addr |-> 0, err |-> "library image is empty"]
    ELSE IF m.symNil THEN [addr |-> 0, err |-> "symbol table is empty"]
    ELSE IF n \in DOMAIN m.symbols /\ m.symbols[n] # 0
         THEN [addr |-> m.symbols[n], err |-> NilErr]
         ELSE [addr |-> 0, err |-> "symbol not found"]

\* Module.ProcAddressByName: trims, rejects the empty name before locking
ProcAddressByName(m, n) ==
    IF TrimSpace(n) = <<>>
    THEN [addr |-> 0, err |-> "export name cannot be empty"]
    ELSE ProcLookup(m, TrimSpace(n))

\* Module.Free, the part under the write lock
FreeBody(m) ==
    IF m.closed THEN m
    ELSE [closed |-> TRUE, mapBase |-> 0, mapLen |-> 0, loadBias |-> 0,
          symbols |-> <<>>, symNil |-> TRUE]

FreeUnmaps(m) == ~m.closed /\ m.mapLen # 0

\* ------------------------------------------------------------------ machine words
\* A byte holds ByteBits bits; uint64 is 8 such bytes, uint32 is 4.
ByteBits == 2
ByteMod == 2^ByteBits
U64Mod == ByteMod^8
U32Mod == ByteMod^4

\* unix.Getpagesize(), scaled
PageSize == 8

\* uintptr and int of the host: 4 bytes on 386, 8 on amd64 and arm64
PtrBytes(goarch) == IF goarch = "386" THEN 4 ELSE 8
PtrMod(goarch) == ByteMod^PtrBytes(goarch)
MaxInt(goarch) == (PtrMod(goarch) \div 2) - 1

Min(S) == CHOOSE x \in S : \A y \in S : x <= y
Max(S) == CHOOSE x \in S : \A y \in S : x >= y

alignDown64(v, a) == IF a = 0 THEN v ELSE v - (v % a)
alignUp64(v, a) == IF a = 0 THEN v ELSE alignDown64((v + (a - 1)) % U64Mod, a)

\* ------------------------------------------------------------------ the ELF input
NoErr == <<>>

currentELFMachine(goarch) ==
    CASE goarch = "386" -> "EM_386"
      [] goarch = "amd64" -> "EM_X86_64"
      [] goarch = "arm64" -> "EM_AARCH64"

\* input bytes: nonzero, so that a copied byte differs from the zero fill
RawLen == 12
RawBytes == [i \in 1..RawLen |-> ((i - 1) % (ByteMod - 1)) + 1]

Prog(type, vaddr, memsz, off, filesz, flags) ==
    [Type |-> type, Vaddr |-> vaddr, Memsz |-> memsz, Off |-> off, Filesz |-> filesz,
     Flags |-> flags]

Sym(nm, value, section, bind, type) ==
    [Name |-> nm, Value |-> value, Section |-> section, Bind |-> bind, Type |-> type]

Rel(off, sym, type, addend) == [off |-> off, sym |-> sym, type |-> type, addend |-> addend]

RelSec(nm, type, entries) == [name |-> nm, type |-> type, entries |-> entries]

\* a well-formed shared object for the host: one page of code and data
ElfBasic(goarch) ==
    [goarch |-> goarch, raw |-> RawBytes, parses |-> TRUE,
     Machine |-> currentELFMachine(goarch), Type |-> "ET_DYN", Data |-> "ELFDATA2LSB",
     Class |-> IF goarch = "386" THEN "ELFCLASS32" ELSE "ELFCLASS64",
     Progs |-> << Prog("PT_LOAD", 0, 8, 0, 8, {"R", "X"}) >>,
     RelSecs |-> <<>>,
     hasDynsym |-> TRUE,
     DynSyms |-> << Sym(<<"a">>, 4, "SHN_1", "STB_GLOBAL", "STT_FUNC") >>,
     hasSymtab |-> FALSE, Syms |-> <<>>,
     resolvable |-> {}]

ElfNone == ElfBasic("amd64")

Ev(op, arg) == [op |-> op, arg |-> arg]

LdInit ==
    [stage |-> "start", err |-> NoErr, base |-> 0, mapLen |-> 0, loadBias |-> 0,
     progs |-> <<>>, segIdx |-> 0, relIdx |-> 0, protIdx |-> 0,
     mem |-> <<>>, prot |-> <<>>, mmaps |-> 0, munmaps |-> 0,
     relocAcc |-> {}, relocWr |-> {}, relocLog |-> <<>>, probe |-> <<>>, trace |-> <<>>,
     copyAcc |-> {},
     mod |-> [closed |-> FALSE, mapBase |-> 0, mapLen |-> 0, loadBias |-> 0,
              symbols |-> <<>>, symNil |-> TRUE]]

\* ------------------------------------------------------------------ SpecLib
\* The loaded module the Library of SpecLib wraps: one page at LibBase with
\* two exports, "a" and "_b".
LibBase == 64
LibPage == 8
LibSymbols == (<<"a">> :> LibBase + 1) @@ (<<"_", "b">> :> LibBase + 2)
LibNames == {<<" ", "a">>, <<"z">>, <<" ">>}

LibModuleInit ==
    [closed |-> FALSE, mapBase |-> LibBase, mapLen |-> LibPage, loadBias |-> LibBase,
     symbols |-> LibSymbols, symNil |-> FALSE]

NoRes == <<"pending">>
ErrLibraryClosed == <<"reflektor: library is closed">>
NilResult == <<>>

\* reflektor.go: fmt.Errorf("reflektor: call export %q: %w", name, err)
WrapCallExport(e) == <<"reflektor: call export">> \o e

\* memmod: fmt.Errorf("resolve export %q: %w", name, err)
WrapResolve(e) == <<"resolve export", e>>

ErrEmptyExportName == <<"export name cannot be empty">>

CallInit == [name |-> <<>>, mod |-> LibModuleInit, done |-> FALSE, err |-> NoRes,
             invoked |-> <<>>, lookups |-> 0]

\* ------------------------------------------------------------ darwin records
\* what debug/macho and the loader read from an image: the first four bytes
\* (magic), the header, the segments, the export trie; for an AP32 container
\* the header check, the decoder result and the payload; for a fat file the
\* slices
Image(magic, cpu, type, layout, exports, pack, inner) ==
    [magic |-> magic, cpu |-> cpu, type |-> type, layout |-> layout,
     exports |-> exports, pack |-> pack, inner |-> inner]

MachO(cpu, type, layout, exports) ==
    Image("MH_MAGIC_64", cpu, type, layout, exports, "none", <<>>)

AP32(pack, payload) == Image("AP32", "", "", "", {}, pack, << payload >>)

FatArch(cpu, inBounds, slice) == [cpu |-> cpu, inBounds |-> inBounds, slice |-> slice]

Fat(arches) == Image("FAT_MAGIC", "", "", "", {}, "none", arches)

Junk == Image("junk", "", "", "", {}, "none", <<>>)

Empty == Image("empty", "", "", "", {}, "none", <<>>)

\* Module.Free zeroes the image bytes in place
Zeroed == Image("zero", "", "", "", {}, "none", <<>>)

\* the host: GOARCH; what the dyld cache and symbol lookups give (0, or status
\* 2, 3, 4); the parts of the writable-state interface that resolve; the
\* writable counter at start; the step that fails for this image on this host
\* ("none", "mmap", "mprotect", "scratch", "make", "null", "loadDependents",
\* "applyFixups"); the number of loaders loadDependents adds
DyEnv(goarch, dyldrc, writable, counter, fault, deps) ==
    [goarch |-> goarch, dyldrc |-> dyldrc, writable |-> writable,
     counter |-> counter, fault |-> fault, deps |-> deps]

\* the two goroutines that share one darwin Module
Callers == {1, 2}

DyCallInit ==
    [name |-> <<>>, symbol |-> <<>>, image |-> <<>>, buffer |-> Junk, rc |-> 0,
     mapped |-> FALSE, unmapped |-> FALSE, entered |-> FALSE, enters |-> 0,
     exits |-> 0, start |-> 0, size |-> 0, n |-> 0, i |-> 0, top |-> 0,
     diag |-> FALSE, trace |-> <<>>, wrote |-> "none", res |-> NoRes]

DyStart(img, env) ==
    [img |-> img, env |-> env,
     mod |-> [state |-> "none", err |-> NoErr, image |-> <<>>, closed |-> FALSE],
     pc |-> [t \in Callers |-> "idle"],
     c |-> [t \in Callers |-> DyCallInit],
     counter |-> env.counter, wprot |-> env.counter = 0, loaded |-> 1,
     detail |-> "", maps |-> 0, inits |-> 0, calls |-> 0]

DyIdle == DyStart(Junk, DyEnv("arm64", 0, {}, 0, "none", 0))

\* fd: the descriptor LoadLibrary writes to; objects: inodes created in
\* /dev/shm; created: files made by os.CreateTemp; entries: names left in
\* /dev/shm; written: image bytes written to the descriptor
ShmIdle ==
    [stage |-> "start", err |-> NoErr, tmpfile |-> TRUE, fd |-> "none",
     objects |-> 0, entries |-> 0, created |-> 0, written |-> 0, writes |-> 0,
     eintr |-> 0, handle |-> 0]


\* ---- depacker and resolver records (used by every Init) --------------

ApWordBits == 16
ApByteBits == 8
MaxSrc == 3
MaxDst == 3

ApIdle == [stage |-> "idle"]

RsIdle == [stage |-> "idle"]

InitLib ==
    /\ pc = [t \in Threads |-> "idle"]
    /\ name = [t \in Threads |-> <<>>]
    /\ cidx = [t \in Threads |-> 0]
    /\ addr = [t \in Threads |-> 0]
    /\ res = [t \in Threads |-> NoRes]
    /\ late = [t \in Threads |-> FALSE]
    /\ libMu = RWInit
    /\ libClosed = FALSE
    /\ libModule = "mod"
    /\ modMu = RWInit
    /\ module = LibModuleInit
    /\ hist = [freeCalls |-> 0, munmaps |-> 0, closeReturned |-> FALSE]
    /\ call = CallInit
    /\ elf = ElfNone
    /\ ld = LdInit
    /\ dy = DyIdle
    /\ shm = ShmIdle
    /\ ap = ApIdle
    /\ rs = RsIdle

\* Library.CallExport line 47: if library.closed || library.module == nil
ClosedCheck_Never(closed, ptr) == FALSE

ClosedCheck(closed, ptr) == closed \/ ptr = "nil"

\* Library.Close lines 61-66: the path on which module.Free() is called
CloseCallsFree_Always(closed, ptr) == TRUE

CloseCallsFree(closed, ptr) == ~closed /\ ptr # "nil"

\* Library.CallExport begins: library.mu.RLock()
LibCallExport_RLock(t) ==
    /\ pc[t] = "idle"
    /\ \E n \in LibNames : name' = [name EXCEPT ![t] = n]
    /\ late' = [late EXCEPT ![t] = hist.closeReturned]
    /\ libMu' = RLock(libMu, t)
    /\ pc' = [pc EXCEPT ![t] = IF RLockEnters(libMu) THEN "ce_check" ELSE "ce_rwait"]
    /\ UNCHANGED <<cidx, addr, res, libClosed, libModule, modMu, module, hist, call, elf, ld, dy, shm, ap, rs>>

\* a reader that slept behind a writer is released by the writer's Unlock
LibCallExport_RWake(t) ==
    /\ pc[t] = "ce_rwait"
    /\ t \in libMu.readers
    /\ pc' = [pc EXCEPT ![t] = "ce_check"]
    /\ UNCHANGED <<name, cidx, addr, res, late, libMu, libClosed, libModule, modMu, module, hist, call, elf, ld, dy, shm, ap, rs>>

\* the closed check, then Module.CallExport's TrimSpace and empty-name check
LibCallExport_Check(t) ==
    /\ pc[t] = "ce_check"
    /\ IF ClosedCheck(libClosed, libModule)
       THEN /\ res' = [res EXCEPT ![t] = ErrLibraryClosed]
            /\ pc' = [pc EXCEPT ![t] = "ce_runlock"]
            /\ UNCHANGED <<name, cidx>>
       ELSE IF TrimSpace(name[t]) = <<>>
       THEN /\ res' = [res EXCEPT ![t] = WrapCallExport(ErrEmptyExportName)]
            /\ pc' = [pc EXCEPT ![t] = "ce_runlock"]
            /\ UNCHANGED <<name, cidx>>
       ELSE /\ name' = [name EXCEPT ![t] = TrimSpace(name[t])]
            /\ cidx' = [cidx EXCEPT ![t] = 1]
            /\ pc' = [pc EXCEPT ![t] = "pa_enter"]
            /\ UNCHANGED res
    /\ UNCHANGED <<addr, late, libMu, libClosed, libModule, modMu, module, hist, call, elf, ld, dy, shm, ap, rs>>

\* after a failed lookup: the next candidate, or the resolve error
AfterMiss(t, e) ==
    IF cidx[t] < Len(Candidates(name[t]))
    THEN /\ cidx' = [cidx EXCEPT ![t] = @ + 1]
         /\ pc' = [pc EXCEPT ![t] = "pa_enter"]
         /\ UNCHANGED res
    ELSE /\ res' = [res EXCEPT ![t] = WrapCallExport(WrapResolve(e))]
         /\ pc' = [pc EXCEPT ![t] = "ce_runlock"]
         /\ UNCHANGED cidx

\* Module.ProcAddressByName(candidate) up to module.mu.RLock()
ModProcAddress_Enter(t) ==
    /\ pc[t] = "pa_enter"
    /\ IF TrimSpace(Candidates(name[t])[cidx[t]]) = <<>>
       THEN /\ AfterMiss(t, "export name cannot be empty")
            /\ UNCHANGED modMu
       ELSE /\ modMu' = RLock(modMu, t)
            /\ pc' = [pc EXCEPT ![t] = IF RLockEnters(modMu) THEN "pa_look" ELSE "pa_rwait"]
            /\ UNCHANGED <<cidx, res>>
    /\ UNCHANGED <<name, addr, late, libMu, libClosed, libModule, module, hist, call, elf, ld, dy, shm, ap, rs>>

ModProcAddress_RWake(t) ==
    /\ pc[t] = "pa_rwait"
    /\ t \in modMu.readers
    /\ pc' = [pc EXCEPT ![t] = "pa_look"]
    /\ UNCHANGED <<name, cidx, addr, res, late, libMu, libClosed, libModule, modMu, module, hist, call, elf, ld, dy, shm, ap, rs>>

\* the lookup under the read lock and the deferred RUnlock
ModProcAddress_Lookup(t) ==
    /\ pc[t] = "pa_look"
    /\ modMu' = RUnlock(modMu, t)
    /\ LET r == ProcLookup(module, TrimSpace(Candidates(name[t])[cidx[t]]))
       IN  IF r.err = NilErr
           THEN /\ addr' = [addr EXCEPT ![t] = r.addr]
                /\ pc' = [pc EXCEPT ![t] = "call"]
                /\ UNCHANGED <<cidx, res>>
           ELSE /\ AfterMiss(t, r.err)
                /\ UNCHANGED addr
    /\ UNCHANGED <<name, late, libMu, libClosed, libModule, module, hist, call, elf, ld, dy, shm, ap, rs>>

\* Module.CallExport line 155: cCall0(addr) jumps into the export
ModCallExport_Call(t) ==
    /\ pc[t] = "call"
    /\ pc' = [pc EXCEPT ![t] = "in_export"]
    /\ UNCHANGED <<name, cidx, addr, res, late, libMu, libClosed, libModule, modMu, module, hist, call, elf, ld, dy, shm, ap, rs>>

\* the export returns; Module.CallExport returns nil
ExportReturns(t) ==
    /\ pc[t] = "in_export"
    /\ res' = [res EXCEPT ![t] = NilResult]
    /\ pc' = [pc EXCEPT ![t] = "ce_runlock"]
    /\ UNCHANGED <<name, cidx, addr, late, libMu, libClosed, libModule, modMu, module, hist, call, elf, ld, dy, shm, ap, rs>>

\* the deferred library.mu.RUnlock(); CallExport has returned
LibCallExport_RUnlock(t) ==
    /\ pc[t] = "ce_runlock"
    /\ libMu' = RUnlock(libMu, t)
    /\ pc' = [pc EXCEPT ![t] = "ce_done"]
    /\ UNCHANGED <<name, cidx, addr, res, late, libClosed, libModule, modMu, module, hist, call, elf, ld, dy, shm, ap, rs>>

\* Library.Close begins: library.mu.Lock()
LibClose_Lock(t) ==
    /\ pc[t] = "idle"
    /\ libMu.writer = None
    /\ libMu' = LockAnnounce(libMu, t)
    /\ pc' = [pc EXCEPT ![t] = IF LockAcquires(libMu) THEN "cl_body" ELSE "cl_wwait"]
    /\ UNCHANGED <<name, cidx, addr, res, late, libClosed, libModule, modMu, module, hist, call, elf, ld, dy, shm, ap, rs>>

\* the last active reader has left: the waiting writer owns the lock
LibClose_WWake(t) ==
    /\ pc[t] = "cl_wwait"
    /\ libMu.writer = t
    /\ libMu.readers = {}
    /\ libMu' = [libMu EXCEPT !.held = TRUE]
    /\ pc' = [pc EXCEPT ![t] = "cl_body"]
    /\ UNCHANGED <<name, cidx, addr, res, late, libClosed, libModule, modMu, module, hist, call, elf, ld, dy, shm, ap, rs>>

\* Library.Close lines 61-66
LibClose_Body(t) ==
    /\ pc[t] = "cl_body"
    /\ IF CloseCallsFree(libClosed, libModule)
       THEN /\ libClosed' = TRUE
            /\ pc' = [pc EXCEPT ![t] = "free_lock"]
       ELSE /\ libClosed' = TRUE
            /\ pc' = [pc EXCEPT ![t] = "cl_unlock"]
    /\ UNCHANGED <<name, cidx, addr, res, late, libMu, libModule, modMu, module, hist, call, elf, ld, dy, shm, ap, rs>>

\* Module.Free begins: module.mu.Lock()
ModFree_Lock(t) ==
    /\ pc[t] = "free_lock"
    /\ modMu.writer = None
    /\ hist.freeCalls < MaxCount
    /\ hist' = [hist EXCEPT !.freeCalls = @ + 1]
    /\ modMu' = LockAnnounce(modMu, t)
    /\ pc' = [pc EXCEPT ![t] = IF LockAcquires(modMu) THEN "free_body" ELSE "free_wwait"]
    /\ UNCHANGED <<name, cidx, addr, res, late, libMu, libClosed, libModule, module, call, elf, ld, dy, shm, ap, rs>>

ModFree_WWake(t) ==
    /\ pc[t] = "free_wwait"
    /\ modMu.writer = t
    /\ modMu.readers = {}
    /\ modMu' = [modMu EXCEPT !.held = TRUE]
    /\ pc' = [pc EXCEPT ![t] = "free_body"]
    /\ UNCHANGED <<name, cidx, addr, res, late, libMu, libClosed, libModule, module, hist, call, elf, ld, dy, shm, ap, rs>>

\* Module.Free lines 115-125 and the deferred module.mu.Unlock()
ModFree_Body(t) ==
    /\ pc[t] = "free_body"
    /\ module' = FreeBody(module)
    /\ hist' = [hist EXCEPT !.munmaps = IF FreeUnmaps(module) THEN @ + 1 ELSE @]
    /\ modMu' = Unlock(modMu)
    /\ pc' = [pc EXCEPT ![t] = "cl_nil"]
    /\ UNCHANGED <<name, cidx, addr, res, late, libMu, libClosed, libModule, call, elf, ld, dy, shm, ap, rs>>

\* Library.Close line 68: library.module = nil
LibClose_ClearModule(t) ==
    /\ pc[t] = "cl_nil"
    /\ libModule' = "nil"
    /\ pc' = [pc EXCEPT ![t] = "cl_unlock"]
    /\ UNCHANGED <<name, cidx, addr, res, late, libMu, libClosed, modMu, module, hist, call, elf, ld, dy, shm, ap, rs>>

\* the deferred library.mu.Unlock(); Close has returned nil
LibClose_Unlock(t) ==
    /\ pc[t] = "cl_unlock"
    /\ libMu' = Unlock(libMu)
    /\ res' = [res EXCEPT ![t] = NilResult]
    /\ hist' = [hist EXCEPT !.closeReturned = TRUE]
    /\ pc' = [pc EXCEPT ![t] = "cl_done"]
    /\ UNCHANGED <<name, cidx, addr, late, libClosed, libModule, modMu, module, call, elf, ld, dy, shm, ap, rs>>

\* the caller takes the result; the thread may call again
CallerContinues(t) ==
    /\ pc[t] \in {"ce_done", "cl_done"}
    /\ pc' = [pc EXCEPT ![t] = "idle"]
    /\ name' = [name EXCEPT ![t] = <<>>]
    /\ cidx' = [cidx EXCEPT ![t] = 0]
    /\ addr' = [addr EXCEPT ![t] = 0]
    /\ res' = [res EXCEPT ![t] = NoRes]
    /\ late' = [late EXCEPT ![t] = FALSE]
    /\ UNCHANGED <<libMu, libClosed, libModule, modMu, module, hist, call, elf, ld, dy, shm, ap, rs>>

NextLib ==
    \E t \in Threads :
        \/ LibCallExport_RLock(t)
        \/ LibCallExport_RWake(t)
        \/ LibCallExport_Check(t)
        \/ ModProcAddress_Enter(t)
        \/ ModProcAddress_Lookup(t)
        \/ ModCallExport_Call(t)
        \/ ExportReturns(t)
        \/ LibCallExport_RUnlock(t)
        \/ LibClose_Lock(t)
        \/ LibClose_WWake(t)
        \/ LibClose_Body(t)
        \/ ModFree_Lock(t)
        \/ ModFree_Body(t)
        \/ LibClose_ClearModule(t)
        \/ LibClose_Unlock(t)
        \/ CallerContinues(t)

SpecLib == InitLib /\ [][NextLib]_vars

\* ------------------------------------------------------------------ claims on SpecLib
\* a CallExport between its closed check and the return of its export
InCallRegion(t) == pc[t] \in {"pa_enter", "pa_rwait", "pa_look", "call", "in_export"}

\* some thread is inside Module.Free
FreeRunning == \E t \in Threads : pc[t] \in {"free_lock", "free_wwait", "free_body"}

\* a CallExport sleeping in library.mu.RLock()
ReaderBlocked(t) == pc[t] = "ce_rwait" /\ t \notin libMu.readers

ExportRunning == \E u \in Threads : pc[u] = "in_export"

\* C1: while a CallExport on the Library is between its closed check and the
\* return of the export it invoked, Module.Free is not running and the
\* mapping has not been released.
C1_CloseExcludesCallExport ==
    \A t \in Threads :
        InCallRegion(t) => ~FreeRunning /\ ~module.closed /\ module.mapLen # 0

\* a Close is waiting for the lock while an export runs
C1_Witness ==
    \E t, u \in Threads : pc[t] = "cl_wwait" /\ pc[u] = "in_export"

\* C2: a CallExport that began after a Close had returned never reaches the
\* module (no lookup, no export) and returns ErrLibraryClosed.
C2_ClosedAfterClose ==
    \A t \in Threads :
        late[t] =>
            /\ ~InCallRegion(t)
            /\ pc[t] \in {"ce_runlock", "ce_done"} => res[t] = ErrLibraryClosed

\* a call begun after Close has returned
C2_Witness ==
    \E t \in Threads : late[t] /\ pc[t] = "ce_done" /\ hist.munmaps = 1

\* C3: every Close returns nil, Module.Free is called at most once and the
\* image is unmapped at most once, in any interleaving of Close calls.
C3_CloseIdempotent ==
    /\ hist.freeCalls <= 1
    /\ hist.munmaps <= 1
    /\ \A t \in Threads : pc[t] = "cl_done" => res[t] = NilResult

\* two Close calls have returned
C3_Witness ==
    \E t, u \in Threads :
        t # u /\ pc[t] = "cl_done" /\ pc[u] = "cl_done" /\ hist.freeCalls = 1

\* C4 as claimed: a CallExport that starts while another call's export is
\* running never waits for it, whether or not a Close is waiting.
C4_Claimed_NeverWaits ==
    \A t \in Threads : ReaderBlocked(t) => ~ExportRunning

\* C4 amended: a CallExport sleeps in RLock only behind a Close that has
\* announced itself on the Library lock; while an export is running that
\* Close is itself still waiting for the readers to leave.
C4_WaitsOnlyBehindClose ==
    \A t \in Threads :
        ReaderBlocked(t) =>
            /\ libMu.writer # None
            /\ pc[libMu.writer] \in {"cl_wwait", "cl_body", "free_lock", "free_wwait",
                                      "free_body", "cl_nil", "cl_unlock"}
            /\ ExportRunning => pc[libMu.writer] = "cl_wwait"

\* two calls are inside their exports at the same time
C4_Witness ==
    \E t, u \in Threads : t # u /\ pc[t] = "in_export" /\ pc[u] = "in_export"

\* ------------------------------------------------------------------ SpecCall
\* Module.CallExport applied to one (name, module) pair.

\* the for loop of Module.CallExport from candidate i on: the address and
\* error it ends with and the names it passed to the table lookup
RECURSIVE ResolveLoop(_, _, _, _)
ResolveLoop(m, cands, i, looked) ==
    LET r == ProcAddressByName(m, cands[i])
        l == IF TrimSpace(cands[i]) = <<>> THEN looked
             ELSE Append(looked, TrimSpace(cands[i]))
    IN  IF r.err = NilErr \/ i = Len(cands)
        THEN [addr |-> r.addr, err |-> r.err, lookups |-> l]
        ELSE ResolveLoop(m, cands, i + 1, l)

\* Module.CallExport: the error returned, the addresses jumped to, the lookups
ModuleCallExport(m, n) ==
    IF TrimSpace(n) = <<>>
    THEN [err |-> ErrEmptyExportName, invoked |-> <<>>, lookups |-> <<>>]
    ELSE LET r == ResolveLoop(m, Candidates(TrimSpace(n)), 1, <<>>)
         IN  IF r.err # NilErr
             THEN [err |-> WrapResolve(r.err), invoked |-> <<>>, lookups |-> r.lookups]
             ELSE [err |-> NilResult, invoked |-> <<r.addr>>, lookups |-> r.lookups]

\* names: every string over NameChars of length 0..MaxNameLen
NameChars == {" ", "_", "a"}

RECURSIVE StringsUpTo(_)
StringsUpTo(k) ==
    IF k = 0 THEN {<<>>}
    ELSE LET shorter == StringsUpTo(k - 1)
         IN  shorter \cup {Append(s, c) : s \in {x \in shorter : Len(x) = k - 1}, c \in NameChars}

CallNames == StringsUpTo(MaxNameLen)

\* symbol tables: each key absent, present at its own address, or present
\* with address 0 (load_bias + value wrapped to 0)
CallKeys == <<  <<"a">>, <<"_", "a">>, <<"_", "_", "a">>, <<" ", "a">>, <<"_">>  >>

CallTables ==
    { [k \in {CallKeys[i] : i \in {j \in 1..Len(CallKeys) : f[j] # "absent"}} |->
          LET i == CHOOSE j \in 1..Len(CallKeys) : CallKeys[j] = k
          IN  IF f[i] = "zero" THEN 0 ELSE LibBase + i]
      : f \in [1..Len(CallKeys) -> {"absent", "addr", "zero"}] }

InitCall ==
    /\ pc = [t \in Threads |-> "idle"]
    /\ name = [t \in Threads |-> <<>>]
    /\ cidx = [t \in Threads |-> 0]
    /\ addr = [t \in Threads |-> 0]
    /\ res = [t \in Threads |-> NoRes]
    /\ late = [t \in Threads |-> FALSE]
    /\ libMu = RWInit
    /\ libClosed = FALSE
    /\ libModule = "mod"
    /\ modMu = RWInit
    /\ module = LibModuleInit
    /\ hist = [freeCalls |-> 0, munmaps |-> 0, closeReturned |-> FALSE]
    /\ \E n \in CallNames, tbl \in CallTables :
          call = [name |-> n, mod |-> [LibModuleInit EXCEPT !.symbols = tbl],
                  done |-> FALSE, err |-> NoRes, invoked |-> <<>>, lookups |-> <<>>]
    /\ elf = ElfNone
    /\ ld = LdInit
    /\ dy = DyIdle
    /\ shm = ShmIdle
    /\ ap = ApIdle
    /\ rs = RsIdle

\* the module is freed before the call is made
CallFreeFirst ==
    /\ ~call.done
    /\ ~call.mod.closed
    /\ call' = [call EXCEPT !.mod = FreeBody(call.mod)]
    /\ UNCHANGED <<libVars, elfVars, dy, shm, ap, rs>>

\* Module.CallExport(name) runs to its return
CallModuleCallExport ==
    /\ ~call.done
    /\ LET r == ModuleCallExport(call.mod, call.name)
       IN  call' = [call EXCEPT !.done = TRUE, !.err = r.err,
                                !.invoked = r.invoked, !.lookups = r.lookups]
    /\ UNCHANGED <<libVars, elfVars, dy, shm, ap, rs>>

NextCall == CallFreeFirst \/ CallModuleCallExport

SpecCall == InitCall /\ [][NextCall]_vars

\* ------------------------------------------------------------------ claims on SpecCall
\* the underscore variant of a trimmed name
UnderscoreVariant(n) == IF Head(n) = "_" THEN Tail(n) ELSE <<"_">> \o n

IsExportNotFound(e) == e # <<>> /\ Head(e) = "resolve export"

\* C5 as claimed: on an open module the trimmed name, else its underscore
\* variant, is invoked exactly once whenever the table has that key; an empty
\* trimmed name fails with EmptyExportName and no lookup; with neither key
\* present the call returns ExportNotFound and invokes nothing.
C5_Claimed_CallExport ==
    (call.done /\ ~call.mod.closed) =>
        LET n == TrimSpace(call.name)
            tbl == call.mod.symbols
        IN  IF n = <<>>
            THEN call.err = ErrEmptyExportName /\ call.lookups = <<>> /\ call.invoked = <<>>
            ELSE IF n \in DOMAIN tbl
            THEN call.err = NilResult /\ call.invoked = <<tbl[n]>>
            ELSE IF UnderscoreVariant(n) \in DOMAIN tbl
            THEN call.err = NilResult /\ call.invoked = <<tbl[UnderscoreVariant(n)]>>
            ELSE IsExportNotFound(call.err) /\ call.invoked = <<>>

\* the table has key k with a nonzero address
HasExport(tbl, k) == k \in DOMAIN tbl /\ tbl[k] # 0

\* C5 amended: as claimed, except that a key counts only with a nonzero
\* address and the underscore variant is trimmed again before it is looked up.
C5_CallExport ==
    (call.done /\ ~call.mod.closed) =>
        LET n == TrimSpace(call.name)
            v == TrimSpace(UnderscoreVariant(n))
            tbl == call.mod.symbols
        IN  IF n = <<>>
            THEN call.err = ErrEmptyExportName /\ call.lookups = <<>> /\ call.invoked = <<>>
            ELSE IF HasExport(tbl, n)
            THEN call.err = NilResult /\ call.invoked = <<tbl[n]>>
            ELSE IF HasExport(tbl, v)
            THEN call.err = NilResult /\ call.invoked = <<tbl[v]>>
            ELSE IsExportNotFound(call.err) /\ call.invoked = <<>>

\* a name with surrounding whitespace was resolved through its variant
C5_Witness ==
    /\ call.done /\ ~call.mod.closed
    /\ call.name # TrimSpace(call.name)
    /\ call.invoked # <<>>
    /\ ~HasExport(call.mod.symbols, TrimSpace(call.name))

\* ------------------------------------------------------------------ SpecELF
\* memmod.LoadLibrary (the pure-Go ELF loader), one step at a time.

\* validateELFHeaders
validateELFHeaders_NoTypeCheck(f) ==
    IF f.Machine # currentELFMachine(f.goarch)
    THEN <<"foreign platform", f.Machine, currentELFMachine(f.goarch)>>
    ELSE IF f.Data # "ELFDATA2LSB" THEN <<"unsupported ELF endianness", f.Data>>
    ELSE IF f.Class \notin {"ELFCLASS32", "ELFCLASS64"} THEN <<"unsupported ELF class", f.Class>>
    ELSE NoErr

validateELFHeaders(f) ==
    IF f.Machine # currentELFMachine(f.goarch)
    THEN <<"foreign platform", f.Machine, currentELFMachine(f.goarch)>>
    ELSE IF f.Type # "ET_DYN" THEN <<"unsupported ELF file type", f.Type>>
    ELSE IF f.Data # "ELFDATA2LSB" THEN <<"unsupported ELF endianness", f.Data>>
    ELSE IF f.Class \notin {"ELFCLASS32", "ELFCLASS64"} THEN <<"unsupported ELF class", f.Class>>
    ELSE NoErr

\* LoadLibrary lines 68-80: what is checked before mapELFImage is called
LoadPrecheck(f) ==
    IF Len(f.raw) = 0 THEN <<"empty ELF image">>
    ELSE IF ~f.parses THEN <<"invalid ELF image">>
    ELSE validateELFHeaders(f)

Fail(l, e) == [l EXCEPT !.stage = "failed", !.err = e]

ElfValidate ==
    /\ ld.stage = "start"
    /\ ld' = IF LoadPrecheck(elf) # NoErr
             THEN Fail(ld, LoadPrecheck(elf))
             ELSE [ld EXCEPT !.stage = "map"]
    /\ UNCHANGED <<libVars, callVars, elf, dy, shm, ap, rs>>

\* mapELFImage lines 201-229: the PT_LOAD segments kept and the mapping size
Loadable(f) == SelectSeq(f.Progs, LAMBDA p : p.Type = "PT_LOAD" /\ p.Memsz # 0)
SegStart(p) == alignDown64(p.Vaddr, PageSize)
SegEnd(p) == alignUp64((p.Vaddr + p.Memsz) % U64Mod, PageSize)

MapPlan(f) ==
    LET progs == Loadable(f)
        idx == 1..Len(progs)
        minV == Min({SegStart(progs[i]) : i \in idx})
        maxV == Max({SegEnd(progs[i]) : i \in idx})
    IN  IF \E i \in idx : SegEnd(progs[i]) <= SegStart(progs[i])
        THEN [err |-> <<"invalid PT_LOAD range">>, progs |-> <<>>, minVAddr |-> 0, mapLen |-> 0]
        ELSE IF Len(progs) = 0
        THEN [err |-> <<"ELF image has no loadable segments">>, progs |-> <<>>,
              minVAddr |-> 0, mapLen |-> 0]
        ELSE IF maxV - minV > MaxInt(f.goarch)
        THEN [err |-> <<"value does not fit in int">>, progs |-> <<>>, minVAddr |-> 0,
              mapLen |-> 0]
        ELSE [err |-> NoErr, progs |-> progs, minVAddr |-> minV, mapLen |-> maxV - minV]

\* where the kernel may place an anonymous mapping of n bytes
MmapBases(goarch, n) ==
    {b \in {PtrMod(goarch) \div 4} : b + n <= PtrMod(goarch)}

\* the addresses of the mapping
InMapping(l, a) == l.base <= a /\ a < l.base + l.mapLen
PageOf(l, a) == (a - l.base) \div PageSize

\* mapELFImage lines 189-239: plan, unix.Mmap (which may fail), load bias
ElfMapReserve ==
    /\ ld.stage = "map"
    /\ LET plan == MapPlan(elf) IN
       IF plan.err # NoErr
       THEN ld' = Fail(ld, plan.err)
       ELSE \/ ld' = Fail(ld, <<"mmap ELF image">>)
            \/ \E b \in MmapBases(elf.goarch, plan.mapLen) :
                 ld' = [ld EXCEPT
                     !.stage = "copy", !.base = b, !.mapLen = plan.mapLen,
                     !.loadBias = (b - (plan.minVAddr % PtrMod(elf.goarch))) % PtrMod(elf.goarch),
                     !.progs = plan.progs, !.segIdx = 1,
                     !.mem = [a \in b..(b + plan.mapLen - 1) |-> 0],
                     !.prot = [pg \in 0..((plan.mapLen \div PageSize) - 1) |-> {"R", "W"}],
                     !.mmaps = @ + 1, !.trace = Append(@, Ev("mmap", plan.mapLen))]
    /\ UNCHANGED <<libVars, callVars, elf, dy, shm, ap, rs>>

\* n consecutive addresses from a, in uintptr arithmetic
Span(goarch, a, n) == [i \in 1..n |-> (a + (i - 1)) % PtrMod(goarch)]

\* memory after the bytes bs were stored at the addresses as
Store(mem, as, bs) ==
    [a \in DOMAIN mem \cup {as[i] : i \in DOMAIN as} |->
        IF \E i \in DOMAIN as : as[i] = a
        THEN bs[CHOOSE i \in DOMAIN as : as[i] = a]
        ELSE mem[a]]

\* after the last segment the loader goes on to the relocations
AfterCopy(l) ==
    IF l.segIdx >= Len(l.progs)
    THEN [l EXCEPT !.stage = "reloc", !.relIdx = 1, !.segIdx = @ + 1]
    ELSE [l EXCEPT !.segIdx = @ + 1]

\* mapELFImage line 254: raw[p.Off : p.Off+p.Filesz]
SegSource_FromStart(f, p) == [i \in 1..p.Filesz |-> f.raw[i]]

SegSource(f, p) == [i \in 1..p.Filesz |-> f.raw[p.Off + i]]

\* mapELFImage lines 240-256: one PT_LOAD segment is copied.  A destination
\* outside the mapping is an access through unsafe.Slice to memory the loader
\* does not own: the store either faults or lands there.
ElfCopySegment ==
    /\ ld.stage = "copy"
    /\ ld.segIdx <= Len(ld.progs)
    /\ LET p == ld.progs[ld.segIdx]
           n == Len(elf.raw)
           dst == Span(elf.goarch, ld.loadBias + (p.Vaddr % PtrMod(elf.goarch)), p.Filesz)
           src == SegSource(elf, p)
       IN  IF p.Filesz = 0 THEN ld' = AfterCopy(ld)
           ELSE IF p.Off > n \/ p.Filesz > n - p.Off
           THEN ld' = [Fail(ld, <<"segment file range out of bounds">>) EXCEPT !.munmaps = @ + 1]
           ELSE IF p.Filesz > MaxInt(elf.goarch)
           THEN ld' = [Fail(ld, <<"value does not fit in int">>) EXCEPT !.munmaps = @ + 1]
           ELSE LET copied == [ld EXCEPT !.mem = Store(ld.mem, dst, src),
                                         !.copyAcc = @ \cup {dst[i] : i \in DOMAIN dst},
                                         !.trace = Append(@, Ev("copy", ld.segIdx))]
                IN  IF \A i \in DOMAIN dst : InMapping(ld, dst[i])
                    THEN ld' = AfterCopy(copied)
                    ELSE \/ ld' = [ld EXCEPT !.stage = "crashed",
                                             !.copyAcc = @ \cup {dst[i] : i \in DOMAIN dst}]
                         \/ ld' = AfterCopy(copied)
    /\ UNCHANGED <<libVars, callVars, elf, dy, shm, ap, rs>>

\* ------------------------------------------------------------------ relocations
RelocSectionNames ==
    <<".rela.dyn", ".rela.plt", ".rela.plt.sec", ".rel.dyn", ".rel.plt", ".rel.plt.sec">>

\* relocationSections: the first section of each name, in the order of the names
relocationSections_FileOrder(f) == f.RelSecs

relocationSections(f) ==
    LET has(nm) == \E i \in DOMAIN f.RelSecs : f.RelSecs[i].name = nm
        first(nm) == f.RelSecs[Min({i \in DOMAIN f.RelSecs : f.RelSecs[i].name = nm})]
        present == SelectSeq(RelocSectionNames, has)
    IN  [k \in DOMAIN present |-> first(present[k])]

\* applyDynamicRelocations lines 278-299: the entries in the order they are
\* applied; a non-empty section of another type stops the walk with an error
RECURSIVE RelocWork(_)
RelocWork(secs) ==
    IF secs = <<>> THEN <<>>
    ELSE LET sec == Head(secs)
             items ==
                 IF sec.entries = <<>> THEN <<>>
                 ELSE IF sec.type \in {"SHT_RELA", "SHT_REL"}
                 THEN [i \in DOMAIN sec.entries |->
                          [sec |-> sec.name, idx |-> i - 1, hasAddend |-> sec.type = "SHT_RELA",
                           bad |-> FALSE, e |-> sec.entries[i]]]
                 ELSE << [sec |-> sec.name, idx |-> 0, hasAddend |-> FALSE, bad |-> TRUE,
                          e |-> Rel(0, 0, "NONE", 0)] >>
         IN  items \o RelocWork(Tail(secs))

\* mappedAddressInRange, in uintptr arithmetic
mappedAddressInRange(goarch, base, len, a, size) ==
    /\ len # 0
    /\ a >= base
    /\ size <= (((base + len) % PtrMod(goarch)) - a) % PtrMod(goarch)

\* little-endian words
WordBytes(v, n) == [i \in 1..n |-> (v \div (ByteMod^(i - 1))) % ByteMod]

RECURSIVE WordAt(_, _, _)
WordAt(mem, as, i) ==
    IF i > Len(as) THEN 0
    ELSE (IF as[i] \in DOMAIN mem THEN mem[as[i]] ELSE 0) + ByteMod * WordAt(mem, as, i + 1)

\* int64(int32(x)) and the signed reading of a uint64
SignExtend32(u) == IF u >= U32Mod \div 2 THEN u + (U64Mod - U32Mod) ELSE u
Signed64(u) == IF u >= U64Mod \div 2 THEN u - U64Mod ELSE u

\* the external resolver, as far as the loader sees it
ExternAddr(goarch) == (PtrMod(goarch) \div 2) + 5

Resolve(f, nm) ==
    IF nm \in f.resolvable THEN [addr |-> ExternAddr(f.goarch), err |-> NoErr]
    ELSE [addr |-> 0, err |-> <<"unresolved external symbol", nm>>]

\* resolveRelocationSymbol
resolveRelocationSymbol(f, symIndex, loadBias) ==
    IF symIndex = 0 THEN [addr |-> 0, err |-> NoErr]
    ELSE IF symIndex > Len(f.DynSyms)
    THEN [addr |-> 0, err |-> <<"relocation references invalid symbol index">>]
    ELSE LET sym == f.DynSyms[symIndex] IN
         IF sym.Section = "SHN_UNDEF" /\ sym.Bind = "STB_WEAK" THEN [addr |-> 0, err |-> NoErr]
         ELSE IF sym.Section # "SHN_UNDEF" /\ sym.Value # 0
         THEN [addr |-> (loadBias + (sym.Value % PtrMod(f.goarch))) % PtrMod(f.goarch),
               err |-> NoErr]
         ELSE IF sym.Name = <<>>
         THEN [addr |-> 0, err |-> <<"relocation symbol is undefined and unnamed">>]
         ELSE LET r == Resolve(f, sym.Name) IN
              IF r.err # NoErr
              THEN [addr |-> 0, err |-> <<"resolve external symbol">> \o r.err]
              ELSE IF r.addr = 0
              THEN [addr |-> 0, err |-> <<"resolved external symbol to nil address">>]
              ELSE r

\* the outcome of one relocation rule: bytes written at place (n = 0: none)
Wr(n, v) == [err |-> NoErr, n |-> n, v |-> v % (ByteMod^n)]
RelErr(e) == [err |-> e, n |-> 0, v |-> 0]

applyX8664Reloc(type, place, loadBias, S, A) ==
    CASE type = "R_X86_64_NONE" -> Wr(0, 0)
      [] type = "R_X86_64_RELATIVE" -> Wr(8, (loadBias + A) % U64Mod)
      [] type \in {"R_X86_64_TPOFF64", "R_X86_64_JMP_SLOT", "R_X86_64_GLOB_DAT", "R_X86_64_64"} ->
            Wr(8, (S + A) % U64Mod)
      [] type = "R_X86_64_32" ->
            LET v == Signed64((S + A) % U64Mod) IN
            IF v < 0 \/ v > U32Mod - 1 THEN RelErr(<<"x86_64 32 relocation overflow">>)
            ELSE Wr(4, v)
      [] type = "R_X86_64_32S" ->
            LET v == Signed64((S + A) % U64Mod) IN
            IF v < -(U32Mod \div 2) \/ v > (U32Mod \div 2) - 1
            THEN RelErr(<<"x86_64 32S relocation overflow">>)
            ELSE Wr(4, v % U32Mod)
      [] type = "R_X86_64_PC32" ->
            LET v == Signed64((S + A + U64Mod - place) % U64Mod) IN
            IF v < -(U32Mod \div 2) \/ v > (U32Mod \div 2) - 1
            THEN RelErr(<<"x86_64 PC32 relocation overflow">>)
            ELSE Wr(4, v % U32Mod)
      [] OTHER -> RelErr(<<"unsupported x86_64 relocation type">>)

apply386Reloc_SlotAddend(type, place, loadBias, S, A) ==
    CASE type = "R_386_NONE" -> Wr(0, 0)
      [] type = "R_386_RELATIVE" -> Wr(4, (loadBias + A) % U64Mod)
      [] type = "R_386_TLS_TPOFF" -> Wr(4, (S + A) % U64Mod)
      [] type \in {"R_386_JMP_SLOT", "R_386_GLOB_DAT"} -> Wr(4, (S + A) % U64Mod)
      [] type \in {"R_386_32", "R_386_32PLT"} -> Wr(4, (S + A) % U64Mod)
      [] type = "R_386_PC32" ->
            LET v == Signed64((S + A + U64Mod - place) % U64Mod) IN
            IF v < -(U32Mod \div 2) \/ v > (U32Mod \div 2) - 1
            THEN RelErr(<<"386 PC32 relocation overflow">>)
            ELSE Wr(4, v % U32Mod)
      [] OTHER -> RelErr(<<"unsupported 386 relocation type">>)

apply386Reloc(type, place, loadBias, S, A) ==
    CASE type = "R_386_NONE" -> Wr(0, 0)
      [] type = "R_386_RELATIVE" -> Wr(4, (loadBias + A) % U64Mod)
      [] type = "R_386_TLS_TPOFF" -> Wr(4, (S + A) % U64Mod)
      [] type \in {"R_386_JMP_SLOT", "R_386_GLOB_DAT"} -> Wr(4, S)
      [] type \in {"R_386_32", "R_386_32PLT"} -> Wr(4, (S + A) % U64Mod)
      [] type = "R_386_PC32" ->
            LET v == Signed64((S + A + U64Mod - place) % U64Mod) IN
            IF v < -(U32Mod \div 2) \/ v > (U32Mod \div 2) - 1
            THEN RelErr(<<"386 PC32 relocation overflow">>)
            ELSE Wr(4, v % U32Mod)
      [] OTHER -> RelErr(<<"unsupported 386 relocation type">>)

applyAArch64Reloc(type, place, loadBias, S, A) ==
    CASE type = "R_AARCH64_NONE" -> Wr(0, 0)
      [] type = "R_AARCH64_RELATIVE" -> Wr(8, (loadBias + A) % U64Mod)
      [] type \in {"R_AARCH64_TLS_TPREL64", "R_AARCH64_JUMP_SLOT", "R_AARCH64_GLOB_DAT",
                   "R_AARCH64_ABS64"} -> Wr(8, (S + A) % U64Mod)
      [] OTHER -> RelErr(<<"unsupported aarch64 relocation type">>)

\* applyOneRelocation: the error, or the addresses read (REL addend) and the
\* bytes stored at place
applyOneRelocation(f, l, item) ==
    LET g == f.goarch
        off == IF f.Class = "ELFCLASS32" THEN item.e.off % U32Mod ELSE item.e.off
        place == (l.loadBias + (off % PtrMod(g))) % PtrMod(g)
        wordSize == IF f.Class = "ELFCLASS32" THEN 4 ELSE 8
        rd == Span(g, place, wordSize)
        A == IF item.hasAddend
             THEN (IF f.Class = "ELFCLASS32" THEN SignExtend32(item.e.addend % U32Mod)
                   ELSE item.e.addend)
             ELSE IF f.Class = "ELFCLASS64" THEN WordAt(l.mem, rd, 1)
             ELSE SignExtend32(WordAt(l.mem, rd, 1))
        sym == resolveRelocationSymbol(f, item.e.sym, l.loadBias)
        w == CASE f.Machine = "EM_X86_64" -> applyX8664Reloc(item.e.type, place, l.loadBias, sym.addr, A)
               [] f.Machine = "EM_386" -> apply386Reloc(item.e.type, place, l.loadBias, sym.addr, A)
               [] f.Machine = "EM_AARCH64" -> applyAArch64Reloc(item.e.type, place, l.loadBias, sym.addr, A)
               [] OTHER -> RelErr(<<"unsupported machine for relocation">>)
        none == [err |-> NoErr, reads |-> <<>>, dst |-> <<>>, bytes |-> <<>>, ruled |-> FALSE,
                 place |-> place, S |-> 0, A |-> 0]
    IN  IF ~mappedAddressInRange(g, l.base, l.mapLen, place, wordSize)
        THEN [none EXCEPT !.err = <<"relocation target out of mapped image">>]
        ELSE LET reads == IF item.hasAddend THEN <<>> ELSE rd IN
             IF sym.err # NoErr THEN [none EXCEPT !.err = sym.err, !.reads = reads]
             ELSE IF w.err # NoErr
             THEN [none EXCEPT !.err = w.err, !.reads = reads, !.ruled = TRUE,
                               !.S = sym.addr, !.A = A]
             ELSE [err |-> NoErr, reads |-> reads, dst |-> Span(g, place, w.n),
                   bytes |-> WordBytes(w.v, w.n), ruled |-> TRUE, place |-> place,
                   S |-> sym.addr, A |-> A]

Touched(r) == {r.reads[i] : i \in DOMAIN r.reads} \cup {r.dst[i] : i \in DOMAIN r.dst}

FailUnmap_NoCleanup(l, e) == Fail(l, e)

\* LoadLibrary's deferred cleanup: the mapping is unmapped, the error returned
FailUnmap(l, e) == [Fail(l, e) EXCEPT !.munmaps = @ + 1]

AfterReloc(f, l) ==
    IF l.relIdx >= Len(RelocWork(relocationSections(f)))
    THEN [l EXCEPT !.stage = "protect", !.protIdx = 1, !.relIdx = @ + 1]
    ELSE [l EXCEPT !.relIdx = @ + 1]

\* applyDynamicRelocations lines 266-276: f.DynamicSymbols() must succeed
ElfRelocBegin ==
    /\ ld.stage = "reloc"
    /\ ld.relIdx = 1
    /\ ld' = IF ~elf.hasDynsym THEN FailUnmap(ld, <<"read dynamic symbol table">>)
             ELSE AfterReloc(elf, [ld EXCEPT !.relIdx = 0, !.stage = "relocating"])
    /\ UNCHANGED <<libVars, callVars, elf, dy, shm, ap, rs>>

\* one relocation entry.  An access outside the mapping that passed the range
\* check either faults or lands in foreign memory.
ElfRelocate ==
    /\ ld.stage = "relocating"
    /\ LET item == RelocWork(relocationSections(elf))[ld.relIdx]
           r == applyOneRelocation(elf, ld, item)
           seen == [ld EXCEPT !.trace = Append(@, Ev("reloc", <<item.sec, item.idx, r.err = NoErr>>)),
                              !.relocAcc = @ \cup Touched(r),
                              !.relocWr = @ \cup {r.dst[i] : i \in DOMAIN r.dst},
                              !.relocLog = IF r.ruled
                                           THEN Append(@, [type |-> item.e.type, sym |-> item.e.sym,
                                                           place |-> r.place,
                                                           S |-> r.S, A |-> r.A, dst |-> r.dst,
                                                           ok |-> r.err = NoErr])
                                           ELSE @]
           after == IF r.err # NoErr
                    THEN FailUnmap(seen, <<item.sec, item.idx>> \o r.err)
                    ELSE AfterReloc(elf, [seen EXCEPT !.mem = Store(ld.mem, r.dst, r.bytes)])
       IN  IF item.bad
           THEN ld' = FailUnmap(ld, <<"unsupported relocation section type", item.sec>>)
           ELSE IF \A a \in Touched(r) : InMapping(ld, a)
           THEN ld' = after
           ELSE \/ ld' = [seen EXCEPT !.stage = "crashed"]
                \/ ld' = after
    /\ UNCHANGED <<libVars, callVars, elf, dy, shm, ap, rs>>

\* ------------------------------------------------------------------ protections
progFlagsToProt_Writable(flags) == {x \in {"R", "W", "X"} : x \in flags} \cup {"W"}

progFlagsToProt(flags) == {x \in {"R", "W", "X"} : x \in flags}

u64ToInt(goarch, v) == IF v > MaxInt(goarch) THEN <<"value does not fit in int">> ELSE NoErr

AfterProtect(l) ==
    IF l.protIdx >= Len(l.progs)
    THEN [l EXCEPT !.stage = "build", !.protIdx = @ + 1]
    ELSE [l EXCEPT !.protIdx = @ + 1]

\* applySegmentProtections, one segment: unix.Mprotect may fail
ElfProtect ==
    /\ ld.stage = "protect"
    /\ LET g == elf.goarch
           p == ld.progs[ld.protIdx]
           start == SegStart(p)
           end == SegEnd(p)
           at == (ld.loadBias + (start % PtrMod(g))) % PtrMod(g)
           pages == {PageOf(ld, at) + k : k \in 0..(((end - start) \div PageSize) - 1)}
       IN  IF p.Type # "PT_LOAD" \/ p.Memsz = 0 \/ end <= start
           THEN ld' = AfterProtect(ld)
           ELSE IF u64ToInt(g, end - start) # NoErr
           THEN ld' = FailUnmap(ld, u64ToInt(g, end - start))
           ELSE IF ~mappedAddressInRange(g, ld.base, ld.mapLen, at, end - start)
           THEN ld' = FailUnmap(ld, <<"segment protection range out of mapped image">>)
           ELSE LET called == [ld EXCEPT !.trace = Append(@, Ev("mprotect", ld.protIdx))] IN
                \/ ld' = FailUnmap(called, <<"mprotect PT_LOAD">>)
                \/ ld' = AfterProtect([called EXCEPT !.prot =
                            [pg \in DOMAIN ld.prot |->
                                IF pg \in pages THEN progFlagsToProt(p.Flags) ELSE ld.prot[pg]]])
    /\ UNCHANGED <<libVars, callVars, elf, dy, shm, ap, rs>>

\* ------------------------------------------------------------------ exported symbols
\* strings.IndexByte
IndexByte(s, c) ==
    IF \E i \in DOMAIN s : s[i] = c THEN Min({i \in DOMAIN s : s[i] = c}) - 1 ELSE -1

\* addELFSymbols, one symbol
AddSymbol_Overwrite(dst, sym, goarch, loadBias) ==
    IF sym.Name = <<>> \/ sym.Value = 0 \/ sym.Section = "SHN_UNDEF" THEN dst
    ELSE IF sym.Bind \notin {"STB_GLOBAL", "STB_WEAK"} THEN dst
    ELSE IF sym.Type \notin {"STT_FUNC", "STT_NOTYPE"} THEN dst
    ELSE LET a == (loadBias + (sym.Value % PtrMod(goarch))) % PtrMod(goarch)
             at == IndexByte(sym.Name, "@")
             base == SubSeq(sym.Name, 1, at)
         IN  IF at > 0 THEN (sym.Name :> a) @@ (base :> a) @@ dst ELSE (sym.Name :> a) @@ dst

AddSymbol(dst, sym, goarch, loadBias) ==
    IF sym.Name = <<>> \/ sym.Value = 0 \/ sym.Section = "SHN_UNDEF" THEN dst
    ELSE IF sym.Bind \notin {"STB_GLOBAL", "STB_WEAK"} THEN dst
    ELSE IF sym.Type \notin {"STT_FUNC", "STT_NOTYPE"} THEN dst
    ELSE LET a == (loadBias + (sym.Value % PtrMod(goarch))) % PtrMod(goarch)
             d1 == IF sym.Name \in DOMAIN dst THEN dst ELSE dst @@ (sym.Name :> a)
             at == IndexByte(sym.Name, "@")
             base == SubSeq(sym.Name, 1, at)
         IN  IF at > 0 /\ base \notin DOMAIN d1 THEN d1 @@ (base :> a) ELSE d1

RECURSIVE addELFSymbols(_, _, _, _)
addELFSymbols(dst, symbols, goarch, loadBias) ==
    IF symbols = <<>> THEN dst
    ELSE addELFSymbols(AddSymbol(dst, Head(symbols), goarch, loadBias), Tail(symbols),
                       goarch, loadBias)

buildExportedSymbolTable(f, loadBias) ==
    LET dyn == IF f.hasDynsym THEN addELFSymbols(<<>>, f.DynSyms, f.goarch, loadBias) ELSE <<>>
    IN  IF f.hasSymtab THEN addELFSymbols(dyn, f.Syms, f.goarch, loadBias) ELSE dyn

\* LoadLibrary lines 102-108: the Module is built and returned
ElfBuildModule ==
    /\ ld.stage = "build"
    /\ ld' = [ld EXCEPT !.stage = "loaded", !.trace = Append(@, Ev("symbols", 0)),
                        !.mod = [closed |-> FALSE, mapBase |-> ld.base, mapLen |-> ld.mapLen,
                                 loadBias |-> ld.loadBias,
                                 symbols |-> buildExportedSymbolTable(elf, ld.loadBias),
                                 symNil |-> FALSE]]
    /\ UNCHANGED <<libVars, callVars, elf, dy, shm, ap, rs>>

\* names asked of the loaded module
ProbeNames == {<<"a">>, <<"b">>, <<" ", "a", "@", "V">>, <<"z">>}

\* Module.ProcAddressByName on the module LoadLibrary returned
ElfProcAddress ==
    /\ ld.stage = "loaded"
    /\ \E n \in ProbeNames :
          ld' = [ld EXCEPT !.probe = <<n, ProcAddressByName(ld.mod, n)>>]
    /\ UNCHANGED <<libVars, callVars, elf, dy, shm, ap, rs>>

\* ------------------------------------------------------------------ inputs of SpecELF
MaxProgs == 2
MaxRelocs == 2
MaxSyms == 2
SeqsUpTo(S, n) == UNION {[1..k -> S] : k \in 0..n}

GoArchs == {"386", "amd64", "arm64"}

\* headers: every combination of the fields LoadLibrary looks at first
ElfHeaders ==
    {[ElfBasic(g) EXCEPT !.raw = r, !.parses = ps, !.Machine = m, !.Type = t, !.Data = d,
                         !.Class = c] :
        g \in GoArchs, r \in {<<>>, RawBytes}, ps \in BOOLEAN,
        m \in {"EM_386", "EM_X86_64", "EM_AARCH64", "EM_ARM"},
        t \in {"ET_REL", "ET_EXEC", "ET_DYN", "ET_CORE"},
        d \in {"ELFDATA2LSB", "ELFDATA2MSB"}, c \in {"ELFCLASS32", "ELFCLASS64"}}

\* program headers: whole page, two halves of one page, second page from file
\* offset 4, a page after a gap, bss only, memsz 0, file range out of bounds,
\* filesz beyond memsz, and a header that is not PT_LOAD
SegChoices ==
    {Prog("PT_LOAD", 0, 8, 0, 8, {"R", "X"}),
     Prog("PT_LOAD", 0, 8, 0, 8, {"R", "W", "X"}),
     Prog("PT_LOAD", 0, 4, 0, 4, {"R", "X"}),
     Prog("PT_LOAD", 4, 4, 4, 4, {"R", "W"}),
     Prog("PT_LOAD", 4, 4, 4, 4, {"R", "W", "X"}),
     Prog("PT_LOAD", 8, 8, 4, 4, {"R", "W"}),
     Prog("PT_LOAD", 16, 4, 2, 4, {"R", "X"}),
     Prog("PT_LOAD", 8, 12, 0, 0, {"R", "W"}),
     Prog("PT_LOAD", 0, 0, 0, 4, {"R", "W"}),
     Prog("PT_LOAD", 0, 4, 10, 4, {"R", "X"}),
     Prog("PT_LOAD", 4, 4, 0, 8, {"R", "W"}),
     Prog("PT_NOTE", 0, 8, 0, 8, {"R"})}

ElfSegments ==
    {[ElfBasic("amd64") EXCEPT !.Progs = ps] : ps \in SeqsUpTo(SegChoices, MaxProgs)}

\* a shared object with a code page and a data page
ElfTwoSeg(goarch) ==
    [ElfBasic(goarch) EXCEPT
        !.Progs = << Prog("PT_LOAD", 0, 8, 0, 8, {"R", "X"}),
                     Prog("PT_LOAD", 8, 8, 4, 8, {"R", "W"}) >>,
        !.DynSyms = << Sym(<<"a">>, 4, "SHN_1", "STB_GLOBAL", "STT_FUNC"),
                       Sym(<<"x">>, 0, "SHN_UNDEF", "STB_GLOBAL", "STT_FUNC"),
                       Sym(<<"x">>, 0, "SHN_UNDEF", "STB_WEAK", "STT_FUNC"),
                       Sym(<<"y">>, 0, "SHN_UNDEF", "STB_GLOBAL", "STT_FUNC"),
                       Sym(<<>>, 0, "SHN_UNDEF", "STB_GLOBAL", "STT_NOTYPE"),
                       Sym(<<"y">>, 0, "SHN_UNDEF", "STB_WEAK", "STT_FUNC") >>,
        !.resolvable = {<<"x">>}]

TypeNone(m) ==
    CASE m = "EM_X86_64" -> "R_X86_64_NONE" [] m = "EM_386" -> "R_386_NONE"
      [] m = "EM_AARCH64" -> "R_AARCH64_NONE"
TypeRelative(m) ==
    CASE m = "EM_X86_64" -> "R_X86_64_RELATIVE" [] m = "EM_386" -> "R_386_RELATIVE"
      [] m = "EM_AARCH64" -> "R_AARCH64_RELATIVE"
TypeGlobDat(m) ==
    CASE m = "EM_X86_64" -> "R_X86_64_GLOB_DAT" [] m = "EM_386" -> "R_386_GLOB_DAT"
      [] m = "EM_AARCH64" -> "R_AARCH64_GLOB_DAT"
TypeCopy(m) ==
    CASE m = "EM_X86_64" -> "R_X86_64_COPY" [] m = "EM_386" -> "R_386_COPY"
      [] m = "EM_AARCH64" -> "R_AARCH64_COPY"

\* relocation offsets: inside the mapping (8), its last four bytes (12), at
\* its end (16), beyond it (17, 116), before it (-1)
RelOffsets == {8, 12, 16, 17, 116, U64Mod - 1}

RelChoices(m) ==
    {Rel(o, 0, TypeRelative(m), 3) : o \in RelOffsets}
    \cup {Rel(0, 0, TypeCopy(m), 0), Rel(17, 0, TypeNone(m), 0)}

RelTables == {<<".rela.dyn", "SHT_RELA">>, <<".rel.plt", "SHT_REL">>}

ElfRelocsOn(g) ==
    {[ElfTwoSeg(g) EXCEPT !.RelSecs = << RelSec(nt[1], nt[2], es) >>] :
        nt \in RelTables, es \in SeqsUpTo(RelChoices(currentELFMachine(g)), MaxRelocs)}

ElfRelocs == UNION {ElfRelocsOn(g) : g \in GoArchs}

\* relocations against symbols: defined, undefined, weak undefined,
\* unresolvable, unnamed, weak and unresolvable, bad index; and the 32-bit
\* forms that can overflow
SymRelChoices(m) ==
    {Rel(8, k, TypeGlobDat(m), 1) : k \in {1, 2, 3, 4, 5, 6, 9}}
    \cup (IF m = "EM_X86_64"
          THEN {Rel(8, 0, "R_X86_64_32", 3), Rel(8, 1, "R_X86_64_32", 0),
                Rel(8, 1, "R_X86_64_PC32", 0), Rel(8, 0, "R_X86_64_32S", U64Mod - 1),
                Rel(8, 2, "R_X86_64_64", 1)}
          ELSE IF m = "EM_386" THEN {Rel(8, 1, "R_386_PC32", 0), Rel(8, 2, "R_386_32", 1)}
          ELSE {Rel(8, 2, "R_AARCH64_ABS64", 1)})

ElfSymRelocsOn(g) ==
    {[ElfTwoSeg(g) EXCEPT !.RelSecs = << RelSec(nt[1], nt[2], << e >>) >>] :
        nt \in RelTables, e \in SymRelChoices(currentELFMachine(g))}

ElfSymRelocs == UNION {ElfSymRelocsOn(g) : g \in GoArchs}

\* several sections, one name twice, one of a type that is no relocation table,
\* and an image without .dynsym
ElfSections ==
    {[ElfTwoSeg("amd64") EXCEPT !.RelSecs =
        << RelSec(".rel.dyn", "SHT_REL", << Rel(8, 0, "R_X86_64_RELATIVE", 0) >>),
           RelSec(".rela.dyn", "SHT_RELA", << Rel(8, 0, "R_X86_64_RELATIVE", 3) >>),
           RelSec(".rela.dyn", "SHT_RELA", << Rel(0, 0, "R_X86_64_RELATIVE", 1) >>),
           RelSec(".rela.plt", t, es) >>] :
        t \in {"SHT_RELA", "SHT_PROGBITS"},
        es \in {<<>>, << Rel(0, 1, "R_X86_64_JMP_SLOT", 0) >>}}
    \cup {[ElfTwoSeg("amd64") EXCEPT !.hasDynsym = FALSE, !.DynSyms = <<>>]}

\* all six relocation sections, in the file in the reverse of the order of
\* their names, one entry each (two in .rela.dyn); entry `bad` of the walk, if
\* any, is of an unsupported type
ElfSectionOrder ==
    {[ElfTwoSeg("amd64") EXCEPT !.RelSecs =
        LET e(k) == IF k = bad THEN Rel(8, 0, "R_X86_64_COPY", 0)
                    ELSE Rel(8, 0, "R_X86_64_RELATIVE", 3)
        IN  << RelSec(".rel.plt.sec", "SHT_REL", << e(7) >>),
               RelSec(".rel.plt", "SHT_REL", << e(6) >>),
               RelSec(".rel.dyn", "SHT_REL", << e(5) >>),
               RelSec(".rela.plt.sec", "SHT_RELA", << e(4) >>),
               RelSec(".rela.plt", "SHT_RELA", << e(3) >>),
               RelSec(".rela.dyn", "SHT_RELA", << e(1), e(2) >>) >>] : bad \in 0..7}

\* symbols: in the code page, in the data page, beyond the mapping, and the
\* ones addELFSymbols skips
SymChoices ==
    {Sym(<<"a">>, 4, "SHN_1", "STB_GLOBAL", "STT_FUNC"),
     Sym(<<"a">>, 12, "SHN_2", "STB_GLOBAL", "STT_NOTYPE"),
     Sym(<<"b">>, 20, "SHN_1", "STB_WEAK", "STT_FUNC"),
     Sym(<<"b">>, 12, "SHN_2", "STB_GLOBAL", "STT_OBJECT"),
     Sym(<<"b">>, 5, "SHN_1", "STB_LOCAL", "STT_FUNC"),
     Sym(<<"b">>, 5, "SHN_UNDEF", "STB_GLOBAL", "STT_FUNC"),
     Sym(<<"b">>, 0, "SHN_1", "STB_GLOBAL", "STT_FUNC"),
     Sym(<<>>, 5, "SHN_1", "STB_GLOBAL", "STT_FUNC"),
     Sym(<<"a", "@", "V">>, 6, "SHN_1", "STB_GLOBAL", "STT_FUNC"),
     Sym(<<"@", "b">>, 6, "SHN_1", "STB_GLOBAL", "STT_FUNC")}

StaticTables ==
    {<<>>,
     << Sym(<<"a">>, 7, "SHN_1", "STB_GLOBAL", "STT_FUNC") >>,
     << Sym(<<"b">>, 13, "SHN_2", "STB_GLOBAL", "STT_NOTYPE"),
        Sym(<<"a">>, 7, "SHN_1", "STB_GLOBAL", "STT_FUNC") >>}

ElfSymbols ==
    {[ElfTwoSeg("amd64") EXCEPT !.DynSyms = ds, !.hasSymtab = st # <<>>, !.Syms = st] :
        ds \in SeqsUpTo(SymChoices, MaxSyms), st \in StaticTables}

ElfInputs ==
    ElfHeaders \cup ElfSegments \cup ElfRelocs \cup ElfSymRelocs \cup ElfSections
        \cup ElfSectionOrder \cup ElfSymbols

InitELF ==
    /\ pc = [t \in Threads |-> "idle"]
    /\ name = [t \in Threads |-> <<>>]
    /\ cidx = [t \in Threads |-> 0]
    /\ addr = [t \in Threads |-> 0]
    /\ res = [t \in Threads |-> NoRes]
    /\ late = [t \in Threads |-> FALSE]
    /\ libMu = RWInit
    /\ libClosed = FALSE
    /\ libModule = "mod"
    /\ modMu = RWInit
    /\ module = LibModuleInit
    /\ hist = [freeCalls |-> 0, munmaps |-> 0, closeReturned |-> FALSE]
    /\ call = CallInit
    /\ elf \in {f \in ElfInputs : f.parses => f.raw # <<>>}
    /\ ld = LdInit
    /\ dy = DyIdle
    /\ shm = ShmIdle
    /\ ap = ApIdle
    /\ rs = RsIdle

NextELF ==
    \/ ElfValidate
    \/ ElfMapReserve
    \/ ElfCopySegment
    \/ ElfRelocBegin
    \/ ElfRelocate
    \/ ElfProtect
    \/ ElfBuildModule
    \/ ElfProcAddress

SpecELF == InitELF /\ [][NextELF]_vars

\* ------------------------------------------------------------------ claims on SpecELF
Loaded == ld.stage = "loaded"

\* C6: an input that is empty, or whose ELF machine is not the host's, or whose
\* ELF type is not ET_DYN, is rejected before any mapping is reserved: no mmap
\* is ever made for it, no Module is built, and the error is "empty ELF image",
\* the foreign-platform error naming the provided and the expected machine, or
\* the unsupported-file-type error.
C6_Rejected ==
    \/ Len(elf.raw) = 0
    \/ elf.parses /\ elf.Machine # currentELFMachine(elf.goarch)
    \/ elf.parses /\ elf.Type # "ET_DYN"

C6_RejectsBeforeMapping ==
    C6_Rejected =>
        /\ ld.stage \in {"start", "failed"}
        /\ ld.mmaps = 0
        /\ ld.mod = LdInit.mod
        /\ ld.stage = "failed" =>
              ld.err = IF Len(elf.raw) = 0 THEN <<"empty ELF image">>
                       ELSE IF elf.Machine # currentELFMachine(elf.goarch)
                       THEN <<"foreign platform", elf.Machine, currentELFMachine(elf.goarch)>>
                       ELSE <<"unsupported ELF file type", elf.Type>>

C6_Witness ==
    /\ ld.stage = "failed"
    /\ elf.parses /\ Len(elf.raw) # 0
    /\ elf.Machine = currentELFMachine(elf.goarch)
    /\ elf.Type = "ET_REL"
    /\ ld.mmaps = 0

\* C7 (as claimed): every address a relocation reads or writes lies inside the
\* reserved mapping; an entry whose word does not lie wholly inside it makes
\* the load fail and touches nothing.
C7_Claimed_RelocInsideMapping ==
    \A a \in ld.relocAcc : InMapping(ld, a)

\* C8: after a successful load a page of the mapping is writable and
\* executable only if some PT_LOAD segment whose page-aligned range covers the
\* page has both PF_W and PF_X.
PageCoveredBy(pg, p) ==
    /\ p.Type = "PT_LOAD"
    /\ \E v \in SegStart(p)..(SegEnd(p) - 1) :
          (ld.loadBias + v) % PtrMod(elf.goarch) = ld.base + pg * PageSize

C8_NoWritableExecutable ==
    Loaded =>
        \A pg \in DOMAIN ld.prot :
            {"W", "X"} \subseteq ld.prot[pg] =>
                \E i \in DOMAIN elf.Progs :
                    PageCoveredBy(pg, elf.Progs[i]) /\ {"W", "X"} \subseteq elf.Progs[i].Flags

C8_Witness ==
    /\ Loaded
    /\ \E pg \in DOMAIN ld.prot, i, j \in DOMAIN elf.Progs :
          /\ i < j
          /\ PageCoveredBy(pg, elf.Progs[i]) /\ PageCoveredBy(pg, elf.Progs[j])
          /\ elf.Progs[i].Flags = {"R", "X"}
          /\ elf.Progs[j].Flags = {"R", "W", "X"}
          /\ ld.prot[pg] = {"R", "W", "X"}

\* C9 (as claimed): an address ProcAddressByName returns lies inside the
\* module's mapping, on a page the segment protections made executable.
C9_Claimed_ExportsExecutable ==
    (Loaded /\ ld.probe # <<>> /\ ld.probe[2].err = NilErr) =>
        /\ InMapping(ld, ld.probe[2].addr)
        /\ "X" \in ld.prot[PageOf(ld, ld.probe[2].addr)]

\* the addresses segment i of the loaded segments was copied to, with the
\* input position each came from
FileBacked(i) ==
    LET p == ld.progs[i] IN
    {<<(ld.loadBias + ((p.Vaddr + k - 1) % PtrMod(elf.goarch))) % PtrMod(elf.goarch), p.Off + k>> :
        k \in 1..p.Filesz}

MemAt(a) == IF a \in DOMAIN ld.mem THEN ld.mem[a] ELSE -1

\* C10 (as claimed): after a successful load every input byte in the file
\* range of a PT_LOAD segment is found unchanged at its mapped address.
C10_Claimed_MappedEqualsInput ==
    Loaded =>
        \A i \in DOMAIN elf.Progs :
            elf.Progs[i].Type = "PT_LOAD" =>
                \A k \in 1..elf.Progs[i].Filesz :
                    LET p == elf.Progs[i] IN
                    MemAt((ld.loadBias + ((p.Vaddr + k - 1) % PtrMod(elf.goarch)))
                              % PtrMod(elf.goarch)) = elf.raw[p.Off + k]

\* C10: after a successful load every input byte in the file range of a
\* PT_LOAD segment with nonzero memsz is found at its mapped address, unless a
\* relocation wrote that address or a later segment's file bytes were copied
\* over it.
C10_MappedEqualsInput ==
    Loaded =>
        \A i \in DOMAIN ld.progs :
            \A fp \in FileBacked(i) :
                \/ fp[1] \in ld.relocWr
                \/ \E j \in DOMAIN ld.progs : j > i /\ \E bp \in FileBacked(j) : bp[1] = fp[1]
                \/ MemAt(fp[1]) = elf.raw[fp[2]]

C10_Witness ==
    /\ Loaded
    /\ \E i \in DOMAIN ld.progs :
          /\ ld.progs[i].Off # 0
          /\ \E fp \in FileBacked(i) : fp[1] \in ld.relocWr /\ MemAt(fp[1]) # elf.raw[fp[2]]
          /\ \E fp \in FileBacked(i) : fp[1] \notin ld.relocWr /\ MemAt(fp[1]) = elf.raw[fp[2]]

\* C11: the value each relocation rule stores.  n is the width of the stored
\* word in bytes, 0 for NONE, -1 when the rule makes the load fail.
C11_Fits(v, lo, hi) == Signed64(v % U64Mod) >= lo /\ Signed64(v % U64Mod) <= hi

C11_Rule(e, slotAddend) ==
    LET t == e.type
        bias == ld.loadBias
        w(width, val) == [n |-> width, v |-> val % (ByteMod^width)]
        fail == [n |-> -1, v |-> 0]
        rel == e.S + e.A + U64Mod - e.place
    IN  CASE t \in {"R_X86_64_NONE", "R_386_NONE", "R_AARCH64_NONE"} -> w(0, 0)
          [] t \in {"R_X86_64_RELATIVE", "R_AARCH64_RELATIVE"} -> w(8, bias + e.A)
          [] t = "R_386_RELATIVE" -> w(4, bias + e.A)
          [] t \in {"R_X86_64_64", "R_X86_64_GLOB_DAT", "R_X86_64_JMP_SLOT", "R_X86_64_TPOFF64",
                    "R_AARCH64_ABS64", "R_AARCH64_GLOB_DAT", "R_AARCH64_JUMP_SLOT",
                    "R_AARCH64_TLS_TPREL64"} -> w(8, e.S + e.A)
          [] t \in {"R_386_32", "R_386_32PLT", "R_386_TLS_TPOFF"} -> w(4, e.S + e.A)
          [] t \in {"R_386_GLOB_DAT", "R_386_JMP_SLOT"} ->
                IF slotAddend THEN w(4, e.S + e.A) ELSE w(4, e.S)
          [] t = "R_X86_64_32" ->
                IF C11_Fits(e.S + e.A, 0, U32Mod - 1) THEN w(4, e.S + e.A) ELSE fail
          [] t = "R_X86_64_32S" ->
                IF C11_Fits(e.S + e.A, -(U32Mod \div 2), (U32Mod \div 2) - 1)
                THEN w(4, e.S + e.A) ELSE fail
          [] t \in {"R_X86_64_PC32", "R_386_PC32"} ->
                IF C11_Fits(rel, -(U32Mod \div 2), (U32Mod \div 2) - 1) THEN w(4, rel) ELSE fail
          [] OTHER -> fail

C11_Overwritten(k) ==
    \E j \in DOMAIN ld.relocLog :
        /\ j > k
        /\ \E x \in DOMAIN ld.relocLog[j].dst, y \in DOMAIN ld.relocLog[k].dst :
              ld.relocLog[j].dst[x] = ld.relocLog[k].dst[y]

\* C11 (as claimed): after a successful load the word at every relocated place
\* equals the value of the rule of its type, where GLOB_DAT and JMP_SLOT give
\* S + A on every machine; NONE writes nothing; a type without a rule, or a
\* value out of range, fails the load.
C11_Claimed_RelocationValues ==
    \A k \in DOMAIN ld.relocLog :
        LET e == ld.relocLog[k]
            rule == C11_Rule(e, TRUE)
        IN  /\ e.ok <=> rule.n >= 0
            /\ ~e.ok => ld.stage \in {"failed", "crashed"}
            /\ (e.ok /\ rule.n = 0) => e.dst = <<>>
            /\ (Loaded /\ e.ok /\ rule.n > 0) =>
                  /\ e.dst = Span(elf.goarch, e.place, rule.n)
                  /\ WordAt(ld.mem, e.dst, 1) = rule.v

\* C11: after a successful load the word at every relocated place that no
\* later relocation wrote over equals the value of the rule of its type:
\* RELATIVE load_bias + A; 64, ABS64, 32 (i386), 32PLT, the TLS types, and
\* GLOB_DAT and JUMP_SLOT/JMP_SLOT on x86_64 and aarch64, S + A; GLOB_DAT and
\* JMP_SLOT on i386, S; PC32 S + A - place; x86_64 32, 32S and PC32 fail the
\* load when out of range; NONE writes nothing; any other type fails the load.
C11_RelocationValues ==
    \A k \in DOMAIN ld.relocLog :
        LET e == ld.relocLog[k]
            rule == C11_Rule(e, FALSE)
        IN  /\ e.ok <=> rule.n >= 0
            /\ ~e.ok => ld.stage \in {"failed", "crashed"}
            /\ (e.ok /\ rule.n = 0) => e.dst = <<>>
            /\ (Loaded /\ e.ok /\ rule.n > 0 /\ ~C11_Overwritten(k)) =>
                  /\ e.dst = Span(elf.goarch, e.place, rule.n)
                  /\ WordAt(ld.mem, e.dst, 1) = rule.v

C11_Witness ==
    /\ Loaded
    /\ \E k \in DOMAIN ld.relocLog :
          /\ ld.relocLog[k].type = "R_386_GLOB_DAT"
          /\ ld.relocLog[k].ok
          /\ ld.relocLog[k].S # 0
          /\ ld.relocLog[k].A % U32Mod # 0
          /\ WordAt(ld.mem, ld.relocLog[k].dst, 1) = ld.relocLog[k].S

\* C12: when LoadLibrary returns an error after the mapping was reserved, the
\* mapping was unmapped exactly once; when it returns a Module, the mapping
\* was not unmapped and the Module holds it; nothing is unmapped that was not
\* mapped.
C12_CleanupOnce ==
    /\ ld.munmaps <= ld.mmaps
    /\ ld.stage = "failed" => ld.munmaps = ld.mmaps
    /\ Loaded =>
          /\ ld.mmaps = 1 /\ ld.munmaps = 0
          /\ ld.mod.mapBase = ld.base /\ ld.mod.mapLen = ld.mapLen /\ ~ld.mod.closed

C12_Witness ==
    /\ ld.stage = "failed"
    /\ ld.mmaps = 1 /\ ld.munmaps = 1
    /\ Len(ld.err) >= 4 /\ ld.err[4] = "unresolved external symbol"

\* a relocation symbol index naming a symbol the image leaves undefined
UndefinedNamed(k) ==
    /\ k \in DOMAIN elf.DynSyms
    /\ elf.DynSyms[k].Section = "SHN_UNDEF"
    /\ elf.DynSyms[k].Name # <<>>

\* C22: the symbol value S of a relocation against a named symbol that the
\* image leaves undefined.  As claimed: the resolver's address whenever the
\* resolver knows the name, weak or not; 0 only for a weak symbol the resolver
\* does not know; a load that succeeded has no relocation against a non-weak
\* symbol the resolver does not know.
C22_Claimed_UndefinedSymbol ==
    /\ \A j \in DOMAIN ld.relocLog :
          LET e == ld.relocLog[j] IN
          UndefinedNamed(e.sym) =>
              IF elf.DynSyms[e.sym].Name \in elf.resolvable
              THEN e.S = ExternAddr(elf.goarch)
              ELSE elf.DynSyms[e.sym].Bind = "STB_WEAK" /\ e.S = 0
    /\ Loaded =>
          \A j \in DOMAIN RelocWork(relocationSections(elf)) :
              LET it == RelocWork(relocationSections(elf))[j] IN
              (~it.bad /\ UndefinedNamed(it.e.sym) /\ elf.DynSyms[it.e.sym].Bind # "STB_WEAK")
                  => elf.DynSyms[it.e.sym].Name \in elf.resolvable

\* the steps a load has taken, by kind, and the relocation entries in the
\* order relocationSections would give them for a list of section names
StepsOf(op) == SelectSeq(ld.trace, LAMBDA e : e.op = op)

StepRank(e) ==
    CASE e.op = "mmap" -> 1 [] e.op = "copy" -> 2 [] e.op = "reloc" -> 3
      [] e.op = "mprotect" -> 4 [] OTHER -> 5

WorkNamed(names) ==
    LET has(nm) == \E i \in DOMAIN elf.RelSecs : elf.RelSecs[i].name = nm
        first(nm) == elf.RelSecs[Min({i \in DOMAIN elf.RelSecs : elf.RelSecs[i].name = nm})]
        present == SelectSeq(names, has)
    IN  RelocWork([k \in DOMAIN present |-> first(present[k])])

LoadOrder(names) ==
    LET relocs == StepsOf("reloc")
        work == WorkNamed(names)
    IN  /\ \A i, j \in DOMAIN ld.trace : i < j => StepRank(ld.trace[i]) <= StepRank(ld.trace[j])
        /\ \A i, j \in DOMAIN StepsOf("copy") :
              i < j => StepsOf("copy")[i].arg < StepsOf("copy")[j].arg
        /\ ld.trace # <<>> => ld.trace[1].op = "mmap" /\ Len(StepsOf("mmap")) = 1
        /\ Len(relocs) <= Len(work)
        /\ \A k \in DOMAIN relocs :
              /\ relocs[k].arg[1] = work[k].sec /\ relocs[k].arg[2] = work[k].idx
              /\ k < Len(relocs) => relocs[k].arg[3]
        /\ (relocs # <<>> /\ ~relocs[Len(relocs)].arg[3]) =>
              ld.stage \in {"failed", "crashed"} /\ StepsOf("mprotect") = <<>>
        /\ StepsOf("mprotect") # <<>> =>
              /\ Len(relocs) = Len(work)
              /\ \A i \in DOMAIN ld.progs :
                    ld.progs[i].Filesz # 0 => \E c \in DOMAIN StepsOf("copy") : StepsOf("copy")[c].arg = i
        /\ ~ld.mod.symNil => Loaded
        /\ Loaded =>
              /\ ld.trace[Len(ld.trace)].op = "symbols" /\ Len(StepsOf("symbols")) = 1
              /\ Len(relocs) = Len(work)
              /\ \A i \in DOMAIN ld.progs :
                    (ld.progs[i].Memsz # 0 /\ SegEnd(ld.progs[i]) > SegStart(ld.progs[i])) =>
                        \E c \in DOMAIN StepsOf("mprotect") : StepsOf("mprotect")[c].arg = i

\* C23 (as claimed): a load maps and copies, then applies the relocations of
\* .rela.dyn, .rela.plt, .rel.dyn, .rel.plt in that order and no others,
\* entries in index order up to the first failing one, then sets the
\* protections, then builds the symbol table; no relocation follows a
\* protection change and the Module exists only after all of it succeeded.
C23_Claimed_LoadOrder == LoadOrder(<<".rela.dyn", ".rela.plt", ".rel.dyn", ".rel.plt">>)

\* C23: the same order of steps, with the relocations of .rela.dyn, .rela.plt,
\* .rela.plt.sec, .rel.dyn, .rel.plt, .rel.plt.sec in that order.
C23_LoadOrder == LoadOrder(RelocSectionNames)

\* a load that went through all six sections, the protections and the table
C23_Witness ==
    /\ Loaded
    /\ Len(StepsOf("reloc")) = 7
    /\ StepsOf("reloc")[4].arg[1] = ".rela.plt.sec"
    /\ StepsOf("mprotect") # <<>>

\* all dynamic symbols, then all static symbols, as far as the tables can be read
AllSymbols ==
    (IF elf.hasDynsym THEN elf.DynSyms ELSE <<>>) \o (IF elf.hasSymtab THEN elf.Syms ELSE <<>>)

Exportable(sym) ==
    /\ sym.Value # 0 /\ sym.Section # "SHN_UNDEF"
    /\ sym.Bind \in {"STB_GLOBAL", "STB_WEAK"} /\ sym.Type \in {"STT_FUNC", "STT_NOTYPE"}

\* sym is named k, or is k@VERSION: k is what stands before its first "@"
Provides(sym, k) ==
    \/ sym.Name = k
    \/ \E j \in DOMAIN sym.Name :
          /\ sym.Name[j] = "@" /\ \A i \in 1..(j - 1) : sym.Name[i] # "@"
          /\ SubSeq(sym.Name, 1, j - 1) = k

Providers(k) == {i \in DOMAIN AllSymbols : Exportable(AllSymbols[i]) /\ Provides(AllSymbols[i], k)}

SymbolKeys ==
    (DOMAIN ld.mod.symbols
        \cup {AllSymbols[i].Name : i \in DOMAIN AllSymbols}
        \cup UNION {{SubSeq(AllSymbols[i].Name, 1, j) : j \in 0..Len(AllSymbols[i].Name)} :
                        i \in DOMAIN AllSymbols})
    \ {<<>>}

\* C24: the table of a loaded module has the (non-empty) key k exactly when
\* some symbol of the dynamic or static table that is named k or k@VERSION has
\* a nonzero value, a section other than UNDEF, binding GLOBAL or WEAK and type
\* FUNC or NOTYPE; its value is load_bias + the value of the first such symbol,
\* dynamic symbols before static ones, whatever symbols follow.
C24_ExportTable ==
    Loaded =>
        \A k \in SymbolKeys :
            /\ k \in DOMAIN ld.mod.symbols <=> Providers(k) # {}
            /\ Providers(k) # {} =>
                  ld.mod.symbols[k] =
                      (ld.loadBias + AllSymbols[Min(Providers(k))].Value) % PtrMod(elf.goarch)

\* a key given by a versioned dynamic symbol, with a dynamic and a static
\* symbol of that very name and other values behind it
C24_Witness ==
    /\ Loaded /\ elf.hasDynsym /\ elf.hasSymtab
    /\ \E k \in DOMAIN ld.mod.symbols :
          \E i, j, m \in Providers(k) :
              /\ i = Min(Providers(k)) /\ i < j /\ j <= Len(elf.DynSyms) /\ m > Len(elf.DynSyms)
              /\ AllSymbols[i].Name # k /\ AllSymbols[j].Name = k /\ AllSymbols[m].Name = k
              /\ AllSymbols[i].Value # AllSymbols[j].Value
              /\ AllSymbols[i].Value # AllSymbols[m].Value

\* C29 (as claimed): every PT_LOAD segment is either rejected or copied
\* entirely inside the reserved mapping: no byte of a copy is stored outside
\* [base, base + length), and a segment whose file range leaves the input, or
\* whose filesz carries vaddr + filesz past the end of the mapping, fails the
\* load.
C29_Claimed_CopyInsideMapping ==
    /\ \A a \in ld.copyAcc : InMapping(ld, a)
    /\ \A i \in DOMAIN ld.progs :
          LET p == ld.progs[i] IN
          (ld.segIdx > i /\ p.Filesz # 0) =>
              /\ p.Off + p.Filesz <= Len(elf.raw)
              /\ (ld.loadBias + p.Vaddr + p.Filesz) % PtrMod(elf.goarch) <= ld.base + ld.mapLen

\* ===================================================================== darwin
\* memmod_darwin.go: LoadLibrary keeps a copy of the Mach-O bytes; every
\* Module.CallExport runs memmodLoader on them.


currentMachOCPU(goarch) ==
    CASE goarch = "arm64" -> "CpuArm64"
      [] goarch = "amd64" -> "CpuAmd64"

validateThinMachO(data, expectedCPU) ==
    IF data.magic # "MH_MAGIC_64" THEN <<"invalid Mach-O image">>
    ELSE IF data.cpu # expectedCPU THEN <<"foreign platform">>
    ELSE IF data.type \notin {"TypeDylib", "TypeBundle"}
         THEN <<"unsupported Mach-O file type">>
    ELSE NoErr

selectCurrentArchMachOSlice(data, goarch) ==
    LET cpu == currentMachOCPU(goarch)
        own == {i \in 1..Len(data.inner) : data.inner[i].cpu = cpu}
        first == CHOOSE i \in own : \A j \in own : i <= j
    IN  IF data.magic = "FAT_MAGIC"
        THEN IF own = {}
             THEN [image |-> <<>>, err |-> <<"foreign platform: no slice in fat Mach-O">>]
             ELSE IF ~data.inner[first].inBounds
             THEN [image |-> <<>>, err |-> <<"invalid fat Mach-O slice bounds">>]
             ELSE IF validateThinMachO(data.inner[first].slice, cpu) # NoErr
             THEN [image |-> <<>>, err |-> validateThinMachO(data.inner[first].slice, cpu)]
             ELSE [image |-> << data.inner[first].slice >>, err |-> NoErr]
        ELSE IF validateThinMachO(data, cpu) # NoErr
             THEN [image |-> <<>>, err |-> validateThinMachO(data, cpu)]
             ELSE [image |-> << data >>, err |-> NoErr]

\* LoadLibrary: the Module it returns, or the error
DarwinLoadLibrary(data, goarch) ==
    LET r == selectCurrentArchMachOSlice(data, goarch)
    IN  IF data.magic = "empty"
        THEN [state |-> "rejected", err |-> <<"empty Mach-O image">>,
              image |-> <<>>, closed |-> FALSE]
        ELSE IF r.err # NoErr
        THEN [state |-> "rejected", err |-> r.err, image |-> <<>>, closed |-> FALSE]
        ELSE [state |-> "loaded", err |-> NoErr, image |-> r.image, closed |-> FALSE]

maybeDepackAP32(data) ==
    IF data.magic # "AP32" \/ data.pack = "short" THEN [out |-> data, rc |-> 0]
    ELSE IF data.pack = "badHeader" THEN [out |-> Junk, rc |-> 14]
    ELSE IF data.pack = "badData" THEN [out |-> Junk, rc |-> 15]
    ELSE [out |-> data.inner[1], rc |-> 0]

normalizeMachOSymbol(nm) ==
    IF TrimSpace(nm) = <<>> THEN [symbol |-> <<>>, err |-> <<"export name cannot be empty">>]
    ELSE IF \E i \in 1..Len(nm) : nm[i] = "\\0"
         THEN [symbol |-> <<>>, err |-> <<"export name contains NUL">>]
    ELSE IF HasUnderscorePrefix(TrimSpace(nm)) THEN [symbol |-> TrimSpace(nm), err |-> NoErr]
    ELSE [symbol |-> <<"_">> \o TrimSpace(nm), err |-> NoErr]

\* mapMachOImage: its status and whether unix.Mmap had succeeded when it returned
mapMachOImage(data, mmapOk, mprotectOk) ==
    IF data.magic # "MH_MAGIC_64" THEN [rc |-> 5, mapped |-> FALSE]
    ELSE IF data.layout = "noText" THEN [rc |-> 10, mapped |-> FALSE]
    ELSE IF data.layout = "badVM" THEN [rc |-> 5, mapped |-> FALSE]
    ELSE IF ~mmapOk THEN [rc |-> 6, mapped |-> FALSE]
    ELSE IF data.layout = "segOutOfFile" THEN [rc |-> 5, mapped |-> TRUE]
    ELSE IF ~mprotectOk THEN [rc |-> 6, mapped |-> TRUE]
    ELSE IF data.layout = "badLoadAddr" THEN [rc |-> 5, mapped |-> TRUE]
    ELSE [rc |-> 0, mapped |-> TRUE]

loaderStatusError(code, detail) ==
    CASE code = 2 -> <<"failed to locate required dyld cache images">>
      [] code = 3 -> <<"failed to resolve dyld runtime API section">>
      [] code = 4 -> <<"failed to resolve required dyld symbols", detail>>
      [] code = 5 -> <<"failed to analyze Mach-O VM layout">>
      [] code = 6 -> <<"failed to allocate mapped image space">>
      [] code = 7 -> <<"failed to allocate dyld scratch space">>
      [] code = 8 -> <<"failed to create top-level dyld loader", detail>>
      [] code = 9 -> <<"failed to load dependents or apply fixups", detail>>
      [] code = 10 -> <<"failed to find __TEXT segment in loaded image">>
      [] code = 11 -> <<"invalid loaded image slide">>
      [] code = 12 -> <<"export symbol not found">>
      [] code = 14 -> <<"invalid packed AP32 payload header">>
      [] code = 15 -> <<"failed to depack AP32 payload">>
      [] OTHER -> <<"in-memory dyld loader failed">>

WritableParts == {"memoryManager", "instance", "lock", "writeProtect", "unlock"}

\* memmodLoader line 564: the condition under which enter is called
WritableAvailable(env) == env.writable = WritableParts

\* the bytes a reader of the Module's image slice sees: Free zeroes them in
\* place, unsynchronised with a memmodLoader that already holds the slice
DyRead(t) ==
    IF dy.mod.closed THEN {dy.c[t].image[1], Zeroed} ELSE {dy.c[t].image[1]}

FirstFixup_SkipTop(c) == c.start + 1

\* the loop of lines 651-654 starts at startLoaderCount
FirstFixup(c) == c.start

\* ---- inputs
DyNames == {<<"f">>, <<" ">>}

DyGood == MachO("CpuArm64", "TypeDylib", "ok", {<<"_", "f">>})

\* segment and header defects: no __TEXT, empty VM range, file range out of
\* bounds, load address outside the mapping, no __TEXT at the load address,
\* load address below __TEXT
DyLayouts == {"noText", "badVM", "segOutOfFile", "badLoadAddr", "memNoText", "memBadSlide"}

DyImages ==
    {DyGood, Junk, Empty,
     MachO("CpuAmd64", "TypeBundle", "ok", {<<"_", "f">>, <<"_", "g">>}),
     MachO("CpuArm64", "TypeExecute", "ok", {<<"_", "f">>}),
     MachO("CpuArm64", "TypeBundle", "ok", {<<"_", "g">>}),
     AP32("ok", DyGood), AP32("badHeader", Junk), AP32("badData", Junk),
     AP32("short", Junk),
     Fat(<< FatArch("CpuAmd64", TRUE, Junk), FatArch("CpuArm64", TRUE, DyGood) >>),
     Fat(<< FatArch("CpuArm64", FALSE, DyGood) >>),
     Fat(<< FatArch("CpuArm64", TRUE, AP32("ok", DyGood)) >>),
     Fat(<< FatArch("CpuAmd64", TRUE, DyGood) >>)}
    \cup {MachO("CpuArm64", "TypeDylib", l, {<<"_", "f">>}) : l \in DyLayouts}

DyHost == DyEnv("arm64", 0, WritableParts, 0, "none", 1)

DyFaults == {"mmap", "mprotect", "scratch", "make", "null", "loadDependents", "applyFixups"}

DyEnvs ==
    {DyHost, DyEnv("arm64", 0, WritableParts, 1, "none", 0),
     DyEnv("amd64", 0, WritableParts, 0, "none", 0),
     DyEnv("arm64", 0, WritableParts \ {"instance"}, 0, "none", 0),
     DyEnv("arm64", 0, WritableParts \ {"unlock"}, 1, "make", 0),
     DyEnv("arm64", 0, {}, 0, "none", 1),
     DyEnv("arm64", 2, WritableParts, 0, "none", 0),
     DyEnv("arm64", 3, WritableParts, 0, "none", 0),
     DyEnv("arm64", 4, WritableParts, 0, "none", 0)}
    \cup {DyEnv("arm64", 0, WritableParts, 0, f, 1) : f \in DyFaults}
    \cup {DyEnv("arm64", 0, WritableParts, 0, f, k) :
             f \in {"none", "applyFixups"}, k \in 0..MaxDeps}

DyInputs == {DyStart(i, DyHost) : i \in DyImages} \cup {DyStart(DyGood, e) : e \in DyEnvs}


\* ---- actions
DyLoadLibrary ==
    /\ dy.mod.state = "none"
    /\ dy' = [dy EXCEPT !.mod = DarwinLoadLibrary(dy.img, dy.env.goarch)]
    /\ UNCHANGED <<libVars, callVars, elfVars, shm, ap, rs>>

DyFree ==
    /\ dy.mod.state = "loaded"
    /\ ~dy.mod.closed
    /\ dy' = [dy EXCEPT !.mod.closed = TRUE, !.mod.image = <<>>]
    /\ UNCHANGED <<libVars, callVars, elfVars, shm, ap, rs>>

\* Module.CallExport up to the call of memmodLoader
DyCallExport(t) ==
    /\ dy.pc[t] \in {"idle", "done"}
    /\ dy.mod.state = "loaded"
    /\ dy.calls < MaxCalls
    /\ \E nm \in DyNames :
          LET s == normalizeMachOSymbol(nm)
              c0 == [DyCallInit EXCEPT !.name = nm, !.symbol = s.symbol]
          IN  dy' = [dy EXCEPT
                 !.calls = @ + 1,
                 !.pc[t] = IF s.err # NoErr \/ dy.mod.closed \/ dy.mod.image = <<>>
                           THEN "done" ELSE "loader",
                 !.c[t] = IF s.err # NoErr THEN [c0 EXCEPT !.res = s.err]
                          ELSE IF dy.mod.closed
                          THEN [c0 EXCEPT !.res = <<"library is closed">>]
                          ELSE IF dy.mod.image = <<>>
                          THEN [c0 EXCEPT !.res = <<"library image is empty">>]
                          ELSE [c0 EXCEPT !.image = dy.mod.image]]
    /\ UNCHANGED <<libVars, callVars, elfVars, shm, ap, rs>>

\* memmodLoader lines 310-513: dyld cache, runtime APIs, depack, dyld symbols
DyLocate(t) ==
    /\ dy.pc[t] = "loader"
    /\ \E data \in DyRead(t) :
          LET d == maybeDepackAP32(data)
              rc == IF dy.env.dyldrc \in {2, 3} THEN dy.env.dyldrc
                    ELSE IF d.rc # 0 THEN d.rc
                    ELSE dy.env.dyldrc
          IN  dy' = [dy EXCEPT
                 !.detail = IF rc \in {2, 3} THEN @
                            ELSE IF rc = 4 THEN "missing dyld symbols" ELSE "",
                 !.c[t] = [@ EXCEPT !.rc = rc, !.buffer = d.out,
                              !.wrote = IF rc = 4 THEN "missing dyld symbols"
                                        ELSE "none"],
                 !.pc[t] = IF rc # 0 THEN "return" ELSE "map"]
    /\ UNCHANGED <<libVars, callVars, elfVars, shm, ap, rs>>

\* lines 515-557: mapMachOImage(buffer), which reads a buffer that is still the
\* Module's slice again; the scratch mapping; startLoaderCount := loaded.Size
DyMapImage(t) ==
    /\ dy.pc[t] = "map"
    /\ \E data \in (IF maybeDepackAP32(dy.c[t].image[1]).out = dy.c[t].image[1]
                    THEN DyRead(t) ELSE {dy.c[t].buffer}) :
          LET m == mapMachOImage(data, dy.env.fault # "mmap", dy.env.fault # "mprotect")
              rc == IF m.rc # 0 THEN m.rc ELSE IF dy.env.fault = "scratch" THEN 7 ELSE 0
          IN  dy' = [dy EXCEPT
                 !.maps = IF m.mapped THEN @ + 1 ELSE @,
                 !.c[t] = [@ EXCEPT !.rc = rc, !.mapped = m.mapped, !.buffer = data,
                                    !.start = dy.loaded],
                 !.pc[t] = IF rc # 0 THEN "return" ELSE "enter"]
    /\ UNCHANGED <<libVars, callVars, elfVars, shm, ap, rs>>

\* lines 559-569 with enterWritableDyldStateLock
DyEnterWritable(t) ==
    /\ dy.pc[t] = "enter"
    /\ dy' = IF WritableAvailable(dy.env)
             THEN [dy EXCEPT !.wprot = IF dy.counter = 0 THEN FALSE ELSE @,
                             !.counter = @ + 1,
                             !.c[t] = [@ EXCEPT !.entered = TRUE, !.enters = @ + 1],
                             !.pc[t] = "make"]
             ELSE [dy EXCEPT !.pc[t] = "make"]
    /\ UNCHANGED <<libVars, callVars, elfVars, shm, ap, rs>>

\* lines 571-613: JustInTimeLoader::make and its diagnostics
DyMake(t) ==
    /\ dy.pc[t] = "make"
    /\ LET out == CASE dy.env.fault = "make" -> "diagnostics"
                     [] dy.env.fault = "null" -> "null"
                     [] OTHER -> "loader"
       IN dy' = [dy EXCEPT
             !.loaded = IF out = "loader" THEN @ + 1 ELSE @,
             !.detail = CASE out = "loader" -> ""
                          [] out = "diagnostics" -> "make returned diagnostics error"
                          [] out = "null" -> "make returned null loader",
             !.c[t] = [@ EXCEPT
                 !.trace = Append(@, Ev("make", 0)),
                 !.top = IF out = "loader" THEN dy.loaded ELSE 0,
                 !.rc = IF out = "loader" THEN 0 ELSE 8,
                 !.wrote = CASE out = "loader" -> "none"
                             [] out = "diagnostics" -> "make returned diagnostics error"
                             [] out = "null" -> "make returned null loader"],
             !.pc[t] = IF out = "loader" THEN "deps" ELSE "return"]
    /\ UNCHANGED <<libVars, callVars, elfVars, shm, ap, rs>>

\* lines 614-648: loadDependents, its diagnostics, newLoadersCount
DyLoadDependents(t) ==
    /\ dy.pc[t] = "deps"
    /\ LET k == dy.env.deps
           err == dy.env.fault = "loadDependents"
       IN dy' = [dy EXCEPT
             !.loaded = @ + k,
             !.detail = IF err THEN "loadDependents reported diagnostics error" ELSE @,
             !.c[t] = [@ EXCEPT
                 !.trace = Append(@, Ev("loadDependents", 0)),
                 !.rc = IF err THEN 9 ELSE 0,
                 !.wrote = IF err THEN "loadDependents reported diagnostics error" ELSE @,
                 !.size = dy.loaded + k,
                 !.n = dy.loaded + k - dy.c[t].start,
                 !.i = 0],
             !.pc[t] = IF err THEN "return"
                       ELSE IF dy.loaded + k - dy.c[t].start # 0 THEN "fixups"
                       ELSE "init"]
    /\ UNCHANGED <<libVars, callVars, elfVars, shm, ap, rs>>

\* lines 649-663: one iteration of the applyFixups loop; the diagnostics are
\* looked at after the last one
DyApplyFixups(t) ==
    /\ dy.pc[t] = "fixups"
    /\ dy.c[t].i < dy.c[t].n
    /\    LET c == dy.c[t]
              \* the first loader's fixups report the error
              err == dy.env.fault = "applyFixups" /\ c.i = 0
              bad == c.diag \/ err
              last == c.i + 1 = c.n
          IN  dy' = [dy EXCEPT
                 !.detail = IF last /\ bad THEN "applyFixups reported diagnostics error" ELSE @,
                 !.c[t] = [@ EXCEPT
                     !.trace = Append(@, Ev("applyFixups", FirstFixup(c) + c.i)),
                     !.i = @ + 1,
                     !.diag = bad,
                     !.rc = IF last /\ bad THEN 9 ELSE 0,
                     !.wrote = IF last /\ bad THEN "applyFixups reported diagnostics error"
                               ELSE @],
                 !.pc[t] = IF ~last THEN "fixups" ELSE IF bad THEN "return" ELSE "init"]
    /\ UNCHANGED <<libVars, callVars, elfVars, shm, ap, rs>>

\* lines 665-680: incDlRefCount, runInitializers, then the export lookup
DyRunInitializers(t) ==
    /\ dy.pc[t] = "init"
    /\ LET c == dy.c[t]
           rc == IF c.buffer.layout = "memNoText" THEN 10
                 ELSE IF c.buffer.layout = "memBadSlide" THEN 11
                 ELSE IF c.symbol \notin c.buffer.exports THEN 12
                 ELSE 0
       IN  dy' = [dy EXCEPT
              !.detail = "",
              !.inits = @ + 1,
              !.c[t] = [@ EXCEPT
                  !.trace = @ \o << Ev("incDlRefCount", c.top), Ev("runInitializers", c.top) >>,
                  !.rc = rc],
              !.pc[t] = IF rc # 0 THEN "return" ELSE "export"]
    /\ UNCHANGED <<libVars, callVars, elfVars, shm, ap, rs>>

\* line 682: call0(addrEntry)
DyExportCall(t) ==
    /\ dy.pc[t] = "export"
    /\ dy' = [dy EXCEPT !.c[t] = [@ EXCEPT !.trace = Append(@, Ev("call0", 0))],
                        !.pc[t] = "inexport"]
    /\ UNCHANGED <<libVars, callVars, elfVars, shm, ap, rs>>

DeferredExit_OnSuccess(t) == dy.c[t].entered /\ dy.c[t].rc = 0

\* the deferred exitWritableDyldStateLock, run at every return of memmodLoader
\* after enter had returned true
DeferredExit(t) == dy.c[t].entered

\* return of memmodLoader (with its deferred call) and of Module.CallExport
Leave(t) ==
    LET c == dy.c[t]
        ex == DeferredExit(t)
    IN  [dy EXCEPT
           !.counter = IF ex /\ dy.counter # 0 THEN @ - 1 ELSE @,
           !.wprot = IF ex /\ dy.counter = 1 THEN TRUE ELSE @,
           !.c[t] = [@ EXCEPT
               !.exits = IF ex THEN @ + 1 ELSE @,
               !.res = IF c.rc # 0
                       THEN <<"call export">> \o loaderStatusError(c.rc, dy.detail)
                       ELSE NilResult],
           !.pc[t] = "done"]

\* lines 683-686: the export has returned
DyExportReturns(t) ==
    /\ dy.pc[t] = "inexport"
    /\ dy' = Leave(t)
    /\ UNCHANGED <<libVars, callVars, elfVars, shm, ap, rs>>

\* an error return of memmodLoader
DyReturn(t) ==
    /\ dy.pc[t] = "return"
    /\ dy' = Leave(t)
    /\ UNCHANGED <<libVars, callVars, elfVars, shm, ap, rs>>

InitDarwin ==
    /\ pc = [t \in Threads |-> "idle"]
    /\ name = [t \in Threads |-> <<>>]
    /\ cidx = [t \in Threads |-> 0]
    /\ addr = [t \in Threads |-> 0]
    /\ res = [t \in Threads |-> NoRes]
    /\ late = [t \in Threads |-> FALSE]
    /\ libMu = RWInit
    /\ libClosed = FALSE
    /\ libModule = "mod"
    /\ modMu = RWInit
    /\ module = LibModuleInit
    /\ hist = [freeCalls |-> 0, munmaps |-> 0, closeReturned |-> FALSE]
    /\ call = CallInit
    /\ elf = ElfNone
    /\ ld = LdInit
    /\ dy \in DyInputs
    /\ shm = ShmIdle
    /\ ap = ApIdle
    /\ rs = RsIdle

NextDarwin ==
    \/ DyLoadLibrary
    \/ DyFree
    \/ \E t \in Callers :
          \/ DyCallExport(t)
          \/ DyLocate(t)
          \/ DyMapImage(t)
          \/ DyEnterWritable(t)
          \/ DyMake(t)
          \/ DyLoadDependents(t)
          \/ DyApplyFixups(t)
          \/ DyRunInitializers(t)
          \/ DyExportCall(t)
          \/ DyExportReturns(t)
          \/ DyReturn(t)

SpecDarwin == InitDarwin /\ [][NextDarwin]_vars

\* ------------------------------------------------------------------ claims on SpecDarwin
Returned(t) == dy.pc[t] = "done" /\ dy.c[t].image # <<>>

\* C13 (as claimed): a load sequence that fails after the image mapping was
\* created has unmapped it when the error is returned
C13_Claimed_UnmapsOnFailure ==
    \A t \in Callers :
        Returned(t) /\ dy.c[t].rc # 0 /\ dy.c[t].mapped => dy.c[t].unmapped

\* C14 (as claimed): an AP32 container whose payload depacks to a valid host
\* dylib or bundle is accepted by load
C14_Claimed_AP32Loads ==
    /\ dy.mod.state # "none"
    /\ dy.img.magic = "AP32" /\ dy.img.pack = "ok"
    /\ validateThinMachO(maybeDepackAP32(dy.img).out, currentMachOCPU(dy.env.goarch)) = NoErr
    => dy.mod.state = "loaded"

\* C15 (as claimed): when load has returned the image is mapped and its
\* initializers have run, and later CallExport calls neither map nor run
\* initializers again
C15_Claimed_LoadOnce ==
    dy.mod.state = "loaded" /\ dy.env.dyldrc = 0 /\ dy.env.fault = "none" /\ dy.img = DyGood
    => dy.maps = 1 /\ dy.inits = 1

\* the dyld calls of a complete load sequence, for the vector size sampled
\* before make, the size after loadDependents and the top loader's index
DyldCalls(start, size, top) ==
    << Ev("make", 0), Ev("loadDependents", 0) >>
    \o [k \in 1..(size - start) |-> Ev("applyFixups", start + k - 1)]
    \o << Ev("incDlRefCount", top), Ev("runInitializers", top), Ev("call0", 0) >>

IsPrefix(s, u) == Len(s) <= Len(u) /\ \A k \in 1..Len(s) : s[k] = u[k]

HasCall(c, op) == \E k \in 1..Len(c.trace) : c.trace[k].op = op

\* C18: each call makes its dyld calls in the order make, loadDependents,
\* applyFixups once for every loader index from the size sampled before make
\* to the size after loadDependents minus one, ascending, incDlRefCount,
\* runInitializers, export; a diagnostics error or a null loader ends the
\* sequence with no later entry point and no export called
C18_DyldCallOrder ==
    \A t \in Callers :
        LET c == dy.c[t]
        IN  /\ IF HasCall(c, "loadDependents")
               THEN /\ c.size >= c.start
                    /\ IsPrefix(c.trace, DyldCalls(c.start, c.size, c.top))
               ELSE IsPrefix(c.trace, << Ev("make", 0) >>)
            /\ HasCall(c, "runInitializers") => c.top \in c.start..(c.size - 1)
            /\ c.rc = 8 => c.trace = << Ev("make", 0) >>
            /\ c.rc = 9 =>
                  \/ c.trace = << Ev("make", 0), Ev("loadDependents", 0) >>
                  \/ Len(c.trace) = 2 + (c.size - c.start)
            /\ c.diag => ~HasCall(c, "incDlRefCount")
            /\ HasCall(c, "call0") => c.rc = 0

C18_Witness ==
    \E t \in Callers :
        /\ Returned(t) /\ dy.c[t].rc = 0
        /\ dy.c[t].start > 1 /\ dy.c[t].size - dy.c[t].start >= 2
        /\ dy.c[t].trace = DyldCalls(dy.c[t].start, dy.c[t].size, dy.c[t].top)

\* C19 (as claimed): the export never runs while its call still holds the
\* dyld state writable
C19_Claimed_ExitBeforeExport ==
    \A t \in Callers :
        dy.pc[t] = "inexport" => ~(dy.c[t].entered /\ dy.c[t].exits = 0)

Holding == {t \in Callers : dy.c[t].enters > dy.c[t].exits}

\* C20: a call that entered the writable state exits it exactly once, at its
\* return, whatever its status; the counter is its starting value plus the
\* number of calls between enter and exit, so it is back at the starting
\* value when all calls have returned; without the memory manager instance
\* or one of its three symbols there is neither enter nor exit
C20_WritableBalanced ==
    /\ \A t \in Callers :
          /\ dy.c[t].enters <= 1
          /\ dy.c[t].exits = (IF dy.pc[t] = "done" THEN dy.c[t].enters ELSE 0)
          /\ ~WritableAvailable(dy.env) => dy.c[t].enters = 0
    /\ dy.counter = dy.env.counter + Cardinality(Holding)
    /\ (\A t \in Callers : dy.pc[t] \in {"idle", "done"}) => dy.counter = dy.env.counter

C20_Witness ==
    /\ \A t \in Callers :
          Returned(t) /\ dy.c[t].enters = 1 /\ dy.c[t].exits = 1 /\ dy.c[t].rc = 9
    /\ dy.counter = dy.env.counter

\* C28 (as claimed): a CallExport that fails with a status that carries a
\* detail (4: missing dyld symbols, 8: loader creation, 9: loadDependents or
\* applyFixups) returns an error whose detail is the one this call recorded,
\* whatever the calls running beside it wrote or cleared.
C28_Claimed_OwnDetail ==
    \A t \in Callers :
        (Returned(t) /\ dy.c[t].rc \in {4, 8, 9}) =>
            dy.c[t].res[Len(dy.c[t].res)] = (IF dy.c[t].wrote = "none" THEN "" ELSE dy.c[t].wrote)

\* ================================================================= /dev/shm
\* memmod/memmod_linux.go: LoadLibrary writes the image to a descriptor opened
\* in /dev/shm and hands /proc/self/fd/<n> to dlopen.

validateELFForCurrentArch(f) ==
    IF ~f.parses THEN <<"invalid ELF image">>
    ELSE IF f.Machine # currentELFMachine(f.goarch)
    THEN <<"foreign platform", f.Machine, currentELFMachine(f.goarch)>>
    ELSE IF f.Type # "ET_DYN" THEN <<"unsupported ELF file type", f.Type>>
    ELSE NoErr

ShmFail(s, e) == [s EXCEPT !.stage = "failed", !.err = e]

\* unix.Close(fd) before an error return
ShmClose(s) == [s EXCEPT !.fd = "closed"]

\* createAnonymousLibraryFD: O_TMPFILE, else CreateTemp + Remove + Dup + Close
createAnonymousLibraryFD(s, how) ==
    CASE how = "O_TMPFILE" ->
            [s EXCEPT !.stage = "write", !.fd = "open", !.objects = @ + 1]
      [] how = "CreateTemp fails" ->
            ShmFail(s, <<"create anonymous shared object fd">>)
      [] how = "Remove fails" ->
            ShmFail([s EXCEPT !.objects = @ + 1, !.created = @ + 1, !.entries = @ + 1],
                    <<"create anonymous shared object fd", "unlink temp shared object">>)
      [] how = "Close fails" ->
            ShmFail([s EXCEPT !.objects = @ + 1, !.created = @ + 1, !.fd = "leaked"],
                    <<"create anonymous shared object fd", "close temp shared object file">>)
      [] how = "Dup fails" ->
            ShmFail([s EXCEPT !.objects = @ + 1, !.created = @ + 1],
                    <<"create anonymous shared object fd", "dup temp shared object fd">>)
      [] how = "CreateTemp" ->
            [s EXCEPT !.stage = "write", !.fd = "open", !.objects = @ + 1,
                      !.created = @ + 1, !.tmpfile = FALSE]

FdOutcomes ==
    {"O_TMPFILE", "CreateTemp fails", "Remove fails", "Close fails", "Dup fails", "CreateTemp"}

\* lines 46-56: empty input, header validation, dlopen/dlsym lookup
ShmValidate ==
    /\ shm.stage = "start"
    /\ \E api \in BOOLEAN :
          shm' = IF Len(elf.raw) = 0 THEN ShmFail(shm, <<"empty ELF image">>)
                 ELSE IF validateELFForCurrentArch(elf) # NoErr
                 THEN ShmFail(shm, validateELFForCurrentArch(elf))
                 ELSE IF ~api THEN ShmFail(shm, <<"linux dynamic loader API">>)
                 ELSE [shm EXCEPT !.stage = "fd"]
    /\ UNCHANGED <<libVars, callVars, elfVars, dy, ap, rs>>

\* lines 58-61
ShmCreateFD ==
    /\ shm.stage = "fd"
    /\ \E how \in FdOutcomes : shm' = createAnonymousLibraryFD(shm, how)
    /\ UNCHANGED <<libVars, callVars, elfVars, dy, ap, rs>>

\* lines 62-77: one unix.Write of the loop: n bytes taken, EINTR, an error, or
\* a return of 0
ShmWrite ==
    /\ shm.stage = "write"
    /\ shm.written < Len(elf.raw)
    /\ \/ \E n \in 1..(Len(elf.raw) - shm.written) :
             shm' = [shm EXCEPT !.written = @ + n, !.writes = @ + 1]
       \/ /\ shm.eintr < MaxEintr
          /\ shm' = [shm EXCEPT !.eintr = @ + 1]
       \/ shm' = ShmFail(ShmClose(shm), <<"write anonymous shared object">>)
       \/ shm' = ShmFail(ShmClose(shm), <<"write anonymous shared object", "short write">>)
    /\ UNCHANGED <<libVars, callVars, elfVars, dy, ap, rs>>

\* lines 79-100: dlopen("/proc/self/fd/<n>")
ShmDlopen ==
    /\ shm.stage = "write"
    /\ shm.written = Len(elf.raw)
    /\ \E handle \in {0, 1} :
          shm' = IF handle = 0 THEN ShmFail(ShmClose(shm), <<"dlopen">>)
                 ELSE [shm EXCEPT !.stage = "loaded", !.handle = handle]
    /\ UNCHANGED <<libVars, callVars, elfVars, dy, ap, rs>>

\* Module.Free: dlclose, unix.Close(module.fd)
ShmFree ==
    /\ shm.stage = "loaded"
    /\ shm' = [ShmClose(shm) EXCEPT !.stage = "freed", !.handle = 0]
    /\ UNCHANGED <<libVars, callVars, elfVars, dy, ap, rs>>

ShmInputs ==
    {f \in ElfHeaders : f.goarch = "amd64" /\ f.Data = "ELFDATA2LSB" /\ f.Class = "ELFCLASS64"}

InitShm ==
    /\ pc = [t \in Threads |-> "idle"]
    /\ name = [t \in Threads |-> <<>>]
    /\ cidx = [t \in Threads |-> 0]
    /\ addr = [t \in Threads |-> 0]
    /\ res = [t \in Threads |-> NoRes]
    /\ late = [t \in Threads |-> FALSE]
    /\ libMu = RWInit
    /\ libClosed = FALSE
    /\ libModule = "mod"
    /\ modMu = RWInit
    /\ module = LibModuleInit
    /\ hist = [freeCalls |-> 0, munmaps |-> 0, closeReturned |-> FALSE]
    /\ call = CallInit
    /\ elf \in ShmInputs
    /\ ld = LdInit
    /\ dy = DyIdle
    /\ shm = ShmIdle
    /\ ap = ApIdle
    /\ rs = RsIdle

NextShm == ShmValidate \/ ShmCreateFD \/ ShmWrite \/ ShmDlopen \/ ShmFree

SpecShm == InitShm /\ [][NextShm]_vars

\* ------------------------------------------------------------------ claims on SpecShm
\* C16 (as claimed): on every path LoadLibrary creates no file and no
\* /dev/shm object and writes the image bytes to no file descriptor
C16_Claimed_NoFilesystemEffect ==
    shm.objects = 0 /\ shm.created = 0 /\ shm.entries = 0 /\ shm.written = 0

\* ======================================================================
\* SpecDepack: maybeDepackAP32 and apDepackSafe (src/memmod/memmod_darwin.go)
\* ======================================================================

\* minAPLibSafeHeaderSize
minAPLibSafeHeaderSize == 24

\* uint32 arithmetic of the header fields and of the decoder, at ApWordBits bits
ApWord == 2^ApWordBits

\* one source byte holds ApByteBits bits (getbit: ud.bitcount = 8)
ApByteMod == 2^ApByteBits

\* the input of maybeDepackAP32: n = len(data), the tag and the three header
\* fields it reads, and body = data[24:]
ApData(n, isAP32, headerSize, packedSize, origSize, body) ==
    [n |-> n, isAP32 |-> isAP32, headerSize |-> headerSize, packedSize |-> packedSize,
     origSize |-> origSize, body |-> body]

\* apdsState, with the number of bytes copied from the output produced so far
\* and the panic a Go index expression raises outside the bounds
ApState(source, dstLen) ==
    [source |-> source, srcPos |-> 0, dstLen |-> dstLen, dst |-> [i \in 1..dstLen |-> 0],
     dstPos |-> 0, tag |-> 0, bitcount |-> 0, copied |-> 0, panic |-> FALSE]

\* data[lo:hi] of a slice of length n whose bytes from 24 on are body
ApSlice(d, lo, hi) ==
    IF lo > hi \/ hi > d.n THEN [panic |-> TRUE, bytes |-> <<>>]
    ELSE [panic |-> FALSE, bytes |-> [i \in 1..(hi - lo) |-> d.body[lo - minAPLibSafeHeaderSize + i]]]

\* the header checks of maybeDepackAP32 (lines 1288-1307): "asis" returns the
\* input with status 0, "invalid" returns status 14, "decode" goes on
HeaderSum_NoWrap(d) == d.headerSize + d.packedSize

HeaderSum(d) == (d.headerSize + d.packedSize) % ApWord

apHeaderCheck(d) ==
    IF d.n < minAPLibSafeHeaderSize THEN "asis"
    ELSE IF ~d.isAP32 THEN "asis"
    ELSE IF d.headerSize < minAPLibSafeHeaderSize \/ d.headerSize > d.n THEN "invalid"
    ELSE IF d.packedSize = 0 \/ HeaderSum(d) > d.n THEN "invalid"
    ELSE IF d.origSize = 0 THEN "invalid"
    ELSE "decode"

\* getbit
getbit(ud) ==
    LET take(u) == [ok |-> TRUE, bit |-> (u.tag \div (ApByteMod \div 2)) % 2,
                    ud |-> [u EXCEPT !.bitcount = @ - 1, !.tag = (@ * 2) % ApWord]]
    IN  IF ud.bitcount = 0
        THEN IF ud.srcPos >= Len(ud.source)
             THEN [ok |-> FALSE, bit |-> 0, ud |-> ud]
             ELSE take([ud EXCEPT !.tag = ud.source[ud.srcPos + 1], !.srcPos = @ + 1,
                                  !.bitcount = ApByteBits])
        ELSE take(ud)

\* getgamma: the loop from the value v on
RECURSIVE gammaLoop(_, _)
gammaLoop(ud, v) ==
    LET b1 == getbit(ud)
        v2 == (v * 2 + b1.bit) % ApWord
        b2 == getbit(b1.ud)
    IN  IF ~b1.ok THEN [ok |-> FALSE, v |-> 0, ud |-> b1.ud]
        ELSE IF v >= ApWord \div 2 THEN [ok |-> FALSE, v |-> 0, ud |-> b1.ud]
        ELSE IF ~b2.ok THEN [ok |-> FALSE, v |-> 0, ud |-> b2.ud]
        ELSE IF b2.bit = 0 THEN [ok |-> TRUE, v |-> v2, ud |-> b2.ud]
        ELSE gammaLoop(b2.ud, v2)

getgamma(ud) == gammaLoop(ud, 1)

\* ud.destination[ud.dstPos] = b; ud.dstPos++
PutByte(ud, b) ==
    IF ud.dstPos < 0 \/ ud.dstPos >= ud.dstLen THEN [ud EXCEPT !.panic = TRUE]
    ELSE [ud EXCEPT !.dst[ud.dstPos + 1] = b, !.dstPos = @ + 1]

\* ud.destination[ud.dstPos] = ud.destination[ud.dstPos-int(offs)]; ud.dstPos++
CopyByte(ud, offs) ==
    LET from == ud.dstPos - offs
    IN  IF from < 0 \/ from >= ud.dstLen THEN [ud EXCEPT !.panic = TRUE]
        ELSE PutByte([ud EXCEPT !.copied = @ + 1], ud.dst[from + 1])

\* for ; length > 0; length-- { copy one byte }
RECURSIVE CopyLoop(_, _, _)
CopyLoop(ud, offs, length) ==
    IF length = 0 \/ ud.panic THEN ud ELSE CopyLoop(CopyByte(ud, offs), offs, length - 1)

\* the guard in front of every copy loop
MatchFits_NoOffsetCheck(ud, offs, length) == length <= ud.dstLen - ud.dstPos

MatchFits(ud, offs, length) == ~(offs > ud.dstPos \/ length > ud.dstLen - ud.dstPos)

\* the state of the decoding loop
ApLoop(ud, R0, LWM, done, ok) == [ud |-> ud, R0 |-> R0, LWM |-> LWM, done |-> done, ok |-> ok]

ApFailed(s, ud) == [s EXCEPT !.ud = ud, !.ok = FALSE]

\* bits 1 1 1: four offset bits, one byte copied or a zero byte (lines 1398-1419)
apSingleByte(s, ud0) ==
    LET b1 == getbit(ud0)
        b2 == getbit(b1.ud)
        b3 == getbit(b2.ud)
        b4 == getbit(b3.ud)
        offs == 8 * b1.bit + 4 * b2.bit + 2 * b3.bit + b4.bit
        ud == b4.ud
    IN  IF ~b1.ok THEN ApFailed(s, b1.ud)
        ELSE IF ~b2.ok THEN ApFailed(s, b2.ud)
        ELSE IF ~b3.ok THEN ApFailed(s, b3.ud)
        ELSE IF ~b4.ok THEN ApFailed(s, b4.ud)
        ELSE IF offs # 0
        THEN IF ~MatchFits(ud, offs, 1) \/ ud.dstPos >= ud.dstLen THEN ApFailed(s, ud)
             ELSE [s EXCEPT !.ud = CopyByte(ud, offs), !.LWM = 0]
        ELSE IF ud.dstPos >= ud.dstLen THEN ApFailed(s, ud)
             ELSE [s EXCEPT !.ud = PutByte(ud, 0), !.LWM = 0]

\* bits 1 1 0: a byte holding offset and length, offset 0 ends the stream
\* (lines 1420-1441)
apShortMatch(s, ud0) ==
    IF ud0.srcPos >= Len(ud0.source) THEN ApFailed(s, ud0)
    ELSE LET byte == ud0.source[ud0.srcPos + 1]
             ud == [ud0 EXCEPT !.srcPos = @ + 1]
             length == 2 + (byte % 2)
             offs == byte \div 2
         IN  IF offs # 0
             THEN IF ~MatchFits(ud, offs, length) THEN ApFailed(s, ud)
                  ELSE [s EXCEPT !.ud = CopyLoop(ud, offs, length), !.R0 = offs, !.LWM = 1]
             ELSE [s EXCEPT !.ud = ud, !.done = TRUE, !.R0 = offs, !.LWM = 1]

\* bits 1 0: gamma-coded offset and length (lines 1442-1499)
apGammaMatch(s, ud0) ==
    LET g == getgamma(ud0)
    IN  IF ~g.ok THEN ApFailed(s, g.ud)
        ELSE IF s.LWM = 0 /\ g.v = 2
        THEN LET offs == s.R0
                 l == getgamma(g.ud)
             IN  IF ~l.ok THEN ApFailed(s, l.ud)
                 ELSE IF ~MatchFits(l.ud, offs, l.v) THEN ApFailed(s, l.ud)
                 ELSE [s EXCEPT !.ud = CopyLoop(l.ud, offs, l.v), !.LWM = 1]
        ELSE LET hi == IF s.LWM = 0 THEN g.v - 3 ELSE g.v - 2
             IN  IF hi > (ApWord \div ApByteMod) - 2 THEN ApFailed(s, g.ud)
                 ELSE IF g.ud.srcPos >= Len(g.ud.source) THEN ApFailed(s, g.ud)
                 ELSE LET offs == hi * ApByteMod + g.ud.source[g.ud.srcPos + 1]
                          l == getgamma([g.ud EXCEPT !.srcPos = @ + 1])
                          length == (l.v + (IF offs >= 32000 THEN 1 ELSE 0)
                                         + (IF offs >= 1280 THEN 1 ELSE 0)
                                         + (IF offs < 128 THEN 2 ELSE 0)) % ApWord
                      IN  IF ~l.ok THEN ApFailed(s, l.ud)
                          ELSE IF ~MatchFits(l.ud, offs, length) THEN ApFailed(s, l.ud)
                          ELSE [s EXCEPT !.ud = CopyLoop(l.ud, offs, length),
                                         !.R0 = offs, !.LWM = 1]

\* bit 0: a literal byte (lines 1500-1508)
apLiteral(s, ud) ==
    IF ud.srcPos >= Len(ud.source) \/ ud.dstPos >= ud.dstLen THEN ApFailed(s, ud)
    ELSE [s EXCEPT !.ud = PutByte([ud EXCEPT !.srcPos = @ + 1], ud.source[ud.srcPos + 1]),
                   !.LWM = 0]

\* one pass of `for !done` (lines 1382-1510)
apIteration(s) ==
    LET b1 == getbit(s.ud)
        b2 == getbit(b1.ud)
        b3 == getbit(b2.ud)
    IN  IF ~b1.ok THEN ApFailed(s, b1.ud)
        ELSE IF b1.bit = 0 THEN apLiteral(s, b1.ud)
        ELSE IF ~b2.ok THEN ApFailed(s, b2.ud)
        ELSE IF b2.bit = 0 THEN apGammaMatch(s, b2.ud)
        ELSE IF ~b3.ok THEN ApFailed(s, b3.ud)
        ELSE IF b3.bit = 0 THEN apShortMatch(s, b3.ud)
        ELSE apSingleByte(s, b3.ud)

\* apDepackSafe up to the loop (lines 1319-1380)
apDepackStart(source, dstLen) ==
    LET ud == ApState(source, dstLen)
    IN  IF Len(source) = 0 \/ dstLen = 0 THEN ApLoop(ud, ApWord - 1, 0, FALSE, FALSE)
        ELSE ApLoop(PutByte([ud EXCEPT !.srcPos = 1], source[1]), ApWord - 1, 0, FALSE, TRUE)

ApStart(d) ==
    [data |-> d, stage |-> "called", rc |-> 0, out |-> "none", lo |-> 0, hi |-> 0,
     st |-> ApLoop(ApState(<<>>, 0), 0, 0, FALSE, TRUE), outLen |-> 0, decoded |-> FALSE,
     passes |-> 0]

\* ---- the operations ---------------------------------------------------

\* maybeDepackAP32 up to the call of apDepackSafe (lines 1287-1310)
ApHeader ==
    /\ ap.stage = "called"
    /\ LET d == ap.data
           h == apHeaderCheck(d)
           sl == ApSlice(d, d.headerSize, HeaderSum(d))
       IN  ap' = IF h = "asis" THEN [ap EXCEPT !.stage = "returned", !.out = "data"]
                 ELSE IF h = "invalid" THEN [ap EXCEPT !.stage = "returned", !.rc = 14, !.out = "nil"]
                 ELSE IF sl.panic
                 THEN [ap EXCEPT !.stage = "panic", !.lo = d.headerSize, !.hi = HeaderSum(d)]
                 ELSE [ap EXCEPT !.stage = "decode", !.lo = d.headerSize, !.hi = HeaderSum(d),
                                 !.decoded = TRUE,
                                 !.st = apDepackStart(sl.bytes, d.origSize)]
    /\ UNCHANGED <<libVars, callVars, elfVars, dyVars, shmVars, rsVars>>

\* one pass of the decoding loop
ApStep ==
    /\ ap.stage = "decode"
    /\ ap.st.ok /\ ~ap.st.done /\ ~ap.st.ud.panic
    /\ ap' = [ap EXCEPT !.st = apIteration(ap.st), !.passes = @ + 1]
    /\ UNCHANGED <<libVars, callVars, elfVars, dyVars, shmVars, rsVars>>

\* apDepackSafe returns and maybeDepackAP32 compares the length (lines 1311-1315)
ApFinish ==
    /\ ap.stage = "decode"
    /\ ~ap.st.ok \/ ap.st.done \/ ap.st.ud.panic
    /\ LET ok == ap.st.ok
           outLen == IF ok THEN ap.st.ud.dstPos ELSE 0
       IN  ap' = IF ap.st.ud.panic THEN [ap EXCEPT !.stage = "panic"]
                 ELSE IF ~ok \/ outLen # ap.st.ud.dstLen
                 THEN [ap EXCEPT !.stage = "returned", !.rc = 15, !.out = "nil", !.outLen = outLen]
                 ELSE [ap EXCEPT !.stage = "returned", !.out = "out", !.outLen = outLen]
    /\ UNCHANGED <<libVars, callVars, elfVars, dyVars, shmVars, rsVars>>

\* ---- inputs -------------------------------------------------------------

\* source bytes: literals, the tag bytes of each kind of step, match bytes
ApBytes == {0, 2, 3, 96, 128, 160, 216, 226, 255}

\* headers around one well-formed three-byte stream
ApHeaderInputs ==
    {ApData(27, t, h, p, o, <<7, 192, 0>>) :
        t \in BOOLEAN,
        h \in {0, 23, 24, 25, 27, 28, ApWord - 1},
        p \in {0, 1, 3, 4, ApWord - 24, ApWord - 1},
        o \in {0, 1, 2}}
    \cup {ApData(n, t, 24, 3, 1, <<>>) : n \in {0, 23}, t \in BOOLEAN}

\* every packed stream of up to MaxSrc bytes behind a well-formed header
ApShortStreams ==
    {ApData(24 + Len(b), TRUE, 24, Len(b), o, b) :
        b \in UNION {[1..k -> ApBytes] : k \in 1..MaxSrc}, o \in 1..MaxDst}

\* longer streams: a gamma-coded match (bits 1 0, offset bits 1 0, low offset
\* byte lo, length bits, then bits 1 1 0 and the end byte), and a short match, a
\* literal and a match that uses the last offset again, and a one-byte copy
ApLongStreams ==
    {ApData(29, TRUE, 24, 5, o, <<7, 163, lo, t, z>>) :
        lo \in {0, 1, 2, 200}, t \in {0, 128}, z \in {0, 1, 2}, o \in 4..6}
    \cup {ApData(30, TRUE, 24, 6, o, <<7, 200, m, 9, 48, z>>) :
        m \in {2, 4}, z \in {0, 2}, o \in 5..7}
    \cup {ApData(28, TRUE, 24, 4, o, <<7, 227, 128, z>>) : z \in {0, 2}, o \in 1..3}

ApStreamInputs == ApShortStreams \cup ApLongStreams

ApInputs == ApHeaderInputs \cup ApStreamInputs

InitDepack ==
    /\ pc = [t \in Threads |-> "idle"]
    /\ name = [t \in Threads |-> <<>>]
    /\ cidx = [t \in Threads |-> 0]
    /\ addr = [t \in Threads |-> 0]
    /\ res = [t \in Threads |-> NoRes]
    /\ late = [t \in Threads |-> FALSE]
    /\ libMu = RWInit
    /\ libClosed = FALSE
    /\ libModule = "mod"
    /\ modMu = RWInit
    /\ module = LibModuleInit
    /\ hist = [freeCalls |-> 0, munmaps |-> 0, closeReturned |-> FALSE]
    /\ call = CallInit
    /\ elf = ElfNone
    /\ ld = LdInit
    /\ dy = DyIdle
    /\ shm = ShmIdle
    /\ ap \in {ApStart(d) : d \in ApInputs}
    /\ rs = RsIdle

NextDepack == ApHeader \/ ApStep \/ ApFinish

SpecDepack == InitDepack /\ [][NextDepack]_vars

\* ---- claims about the depacker ----------------------------------------

ApCalled == ap.stage \notin {"idle", "called"}

\* the header conditions under which the input is to be rejected
ApBadHeader(d) ==
    \/ d.headerSize < minAPLibSafeHeaderSize
    \/ d.headerSize > d.n
    \/ d.packedSize = 0
    \/ HeaderSum_NoWrap(d) > d.n
    \/ d.origSize = 0

\* C21: an input of at least 24 bytes with the AP32 tag comes back with status
\* 14 (AP32HeaderInvalid), without a panic and without the decoder being run,
\* whenever header_size < 24, header_size > len, packed_size = 0,
\* header_size + packed_size (not wrapped) > len, or orig_size = 0; otherwise the
\* decoder is run on input[header_size, header_size + packed_size).
C21_Claimed_HeaderRejects ==
    (ApCalled /\ ap.data.n >= minAPLibSafeHeaderSize /\ ap.data.isAP32) =>
        IF ApBadHeader(ap.data)
        THEN ap.stage = "returned" /\ ap.rc = 14 /\ ~ap.decoded
        ELSE ap.decoded /\ ap.lo = ap.data.headerSize
                        /\ ap.hi = ap.data.headerSize + ap.data.packedSize

\* C30: apDepackSafe stays inside both buffers and ends.  No index expression
\* panics, the positions stay within the lengths, the loop makes at most one
\* pass per source bit, a match that reaches before the output or past its end
\* and an exhausted source give failure (status 15), and the output is returned
\* only when the decoder succeeded with exactly orig_size bytes.
C30_DepackSafe ==
    ap.decoded =>
        /\ ~ap.st.ud.panic /\ ap.stage # "panic"
        /\ ap.st.ud.srcPos >= 0 /\ ap.st.ud.srcPos <= Len(ap.st.ud.source)
        /\ ap.st.ud.dstPos >= 0 /\ ap.st.ud.dstPos <= ap.st.ud.dstLen
        /\ ap.st.ud.dstLen = ap.data.origSize
        /\ ap.passes <= ApByteBits * Len(ap.st.ud.source)
        /\ (ap.stage = "returned" =>
               IF ap.st.ok /\ ap.st.done /\ ap.st.ud.dstPos = ap.data.origSize
               THEN ap.rc = 0 /\ ap.out = "out" /\ ap.outLen = ap.data.origSize
               ELSE ap.rc = 15 /\ ap.out = "nil")

\* a stream of a short match, a literal, a match at the last offset and the end
\* mark, decoded into exactly orig_size = 6 bytes
C30_Witness ==
    /\ ap.decoded /\ ap.stage = "returned" /\ ap.out = "out"
    /\ ap.outLen = 6 /\ ap.st.ud.copied = 4 /\ ap.passes = 4


\* ================================================================== progress
\* The steps a thread takes once it is inside a call.  The Go scheduler runs
\* every runnable goroutine again, and a goroutine parked in RLock or Lock is
\* made runnable by the Unlock or RUnlock that admits it: a step that stays
\* possible is eventually taken.
ThreadStep(t) ==
    \/ LibCallExport_RWake(t)
    \/ LibCallExport_Check(t)
    \/ ModProcAddress_Enter(t)
    \/ ModProcAddress_Lookup(t)
    \/ ModCallExport_Call(t)
    \/ LibCallExport_RUnlock(t)
    \/ LibClose_WWake(t)
    \/ LibClose_Body(t)
    \/ ModFree_Lock(t)
    \/ ModFree_Body(t)
    \/ LibClose_ClearModule(t)
    \/ LibClose_Unlock(t)

\* the hypothesis of the claim on exports is the fairness of ExportReturns
LibFairness ==
    \A t \in Threads : WF_vars(ThreadStep(t)) /\ WF_vars(ExportReturns(t))

SpecLibFair == InitLib /\ [][NextLib]_vars /\ LibFairness

\* ------------------------------------------------------------------ claims on SpecLibFair
\* C17: if every invoked export returns, every Library.CallExport call and
\* every Library.Close call that has begun returns
C17_CallsReturn ==
    \A t \in Threads : (pc[t] # "idle") ~> (pc[t] \in {"ce_done", "cl_done"})

\* an export is running, a Close waits for it in Lock, and a CallExport waits
\* behind that Close in RLock
C17_Witness ==
    \E t1, t2, t3 \in Threads :
        pc[t1] = "in_export" /\ pc[t2] = "cl_wwait" /\ pc[t3] = "ce_rwait"

\* ======================================================================
\* SpecMod: one memmod.Module (Linux ELF backend) used directly by several
\* threads, without the Library around it
\* ======================================================================

\* Module.CallExport lines 128-139: TrimSpace, the empty-name check, the
\* candidates
ModCallExport_Begin(t) ==
    /\ pc[t] = "idle"
    /\ \E n \in LibNames :
          IF TrimSpace(n) = <<>>
          THEN /\ name' = [name EXCEPT ![t] = n]
               /\ res' = [res EXCEPT ![t] = ErrEmptyExportName]
               /\ pc' = [pc EXCEPT ![t] = "ce_done"]
               /\ UNCHANGED cidx
          ELSE /\ name' = [name EXCEPT ![t] = TrimSpace(n)]
               /\ cidx' = [cidx EXCEPT ![t] = 1]
               /\ pc' = [pc EXCEPT ![t] = "pa_enter"]
               /\ UNCHANGED res
    /\ UNCHANGED <<addr, late, libMu, libClosed, libModule, modMu, module, hist, call, elf, ld, dy, shm, ap, rs>>

\* Module.CallExport returns to its caller: nil after the export, or the
\* resolve error (without the prefix Library.CallExport would add)
ModCallExport_Return(t) ==
    /\ pc[t] = "ce_runlock"
    /\ res' = [res EXCEPT ![t] = IF @ # NilResult /\ Head(@) = "reflektor: call export"
                                 THEN Tail(@) ELSE @]
    /\ pc' = [pc EXCEPT ![t] = "ce_done"]
    /\ UNCHANGED <<name, cidx, addr, late, libMu, libClosed, libModule, modMu, module, hist, call, elf, ld, dy, shm, ap, rs>>

\* Module.Free is called
ModFree_Begin(t) ==
    /\ pc[t] = "idle"
    /\ pc' = [pc EXCEPT ![t] = "free_lock"]
    /\ UNCHANGED <<name, cidx, addr, res, late, libMu, libClosed, libModule, modMu, module, hist, call, elf, ld, dy, shm, ap, rs>>

\* Module.Free has returned
ModFree_Return(t) ==
    /\ pc[t] = "cl_nil"
    /\ res' = [res EXCEPT ![t] = NilResult]
    /\ pc' = [pc EXCEPT ![t] = "cl_done"]
    /\ UNCHANGED <<name, cidx, addr, late, libMu, libClosed, libModule, modMu, module, hist, call, elf, ld, dy, shm, ap, rs>>

NextMod ==
    \E t \in Threads :
        \/ ModCallExport_Begin(t)
        \/ ModProcAddress_Enter(t)
        \/ ModProcAddress_RWake(t)
        \/ ModProcAddress_Lookup(t)
        \/ ModCallExport_Call(t)
        \/ ExportReturns(t)
        \/ ModCallExport_Return(t)
        \/ ModFree_Begin(t)
        \/ ModFree_Lock(t)
        \/ ModFree_WWake(t)
        \/ ModFree_Body(t)
        \/ ModFree_Return(t)
        \/ CallerContinues(t)

SpecMod == InitLib /\ [][NextMod]_vars

\* C27 (as claimed): while a Module.CallExport has its export address and the
\* export has not returned, the module's mapping is still mapped: Module.Free
\* does not unmap it under such a call.
C27_Claimed_FreeWaitsForExport ==
    \A t \in Threads :
        pc[t] \in {"call", "in_export"} => ~module.closed /\ module.mapLen # 0

\* ======================================================================
\* SpecResolve: symbolResolver of the Linux ELF backend (src/unnamed/part_009)
\* ======================================================================

\* a library name or path: directory ("" for a bare name), the name up to and
\* with ".so", and the version behind it ("" for none): /lib/libc.so.6 is
\* Path("/lib", "libc.so", "6")
Path(dir, stem, ver) == [dir |-> dir, stem |-> stem, ver |-> ver]

\* filepath.Base
Base(p) == Path("", p.stem, p.ver)

\* a symbol name: base, and the version behind "@" ("" for none)
SymName(base, ver) == [base |-> base, ver |-> ver]

\* the order of a sequence without its repeated elements (the `seen` maps)
RECURSIVE Dedup(_, _)
Dedup(s, seen) ==
    IF s = <<>> THEN <<>>
    ELSE IF Head(s) \in seen THEN Dedup(Tail(s), seen)
    ELSE <<Head(s)>> \o Dedup(Tail(s), seen \cup {Head(s)})

\* linuxLibrarySearchDirs
linuxLibrarySearchDirs(goarch) ==
    <<"/lib", "/lib64", "/usr/lib", "/usr/lib64">>
    \o (CASE goarch = "amd64" -> <<"/lib/x86_64-linux-gnu", "/usr/lib/x86_64-linux-gnu">>
          [] goarch = "386" -> <<"/lib/i386-linux-gnu", "/usr/lib/i386-linux-gnu">>
          [] goarch = "arm64" -> <<"/lib/aarch64-linux-gnu", "/usr/lib/aarch64-linux-gnu">>
          [] OTHER -> <<>>)

\* commonLinuxDependencies
commonLinuxDependencies(goarch) ==
    <<Path("", "libc.so", "6"), Path("", "libdl.so", "2"), Path("", "libpthread.so", "0")>>
    \o (CASE goarch = "amd64" -> <<Path("", "ld-linux-x86-64.so", "2"), Path("", "ld-musl-x86_64.so", "1")>>
          [] goarch = "386" -> <<Path("", "ld-linux.so", "2"), Path("", "ld-musl-i386.so", "1")>>
          [] goarch = "arm64" -> <<Path("", "ld-linux-aarch64.so", "1"), Path("", "ld-musl-aarch64.so", "1")>>
          [] OTHER -> <<>>)

\* dlopenCandidates
dlopenCandidates(goarch, nm) ==
    LET base == Base(nm)
        alias == CASE base = Path("", "libc.so", "") -> <<Path("", "libc.so", "6")>>
                   [] base = Path("", "libdl.so", "") -> <<Path("", "libdl.so", "2")>>
                   [] base = Path("", "libpthread.so", "") -> <<Path("", "libpthread.so", "0")>>
                   [] OTHER -> <<>>
        short == IF base.ver # "" THEN <<Path("", base.stem, "")>> ELSE <<>>
        dirs == linuxLibrarySearchDirs(goarch)
        inDirs == [i \in DOMAIN dirs |-> Path(dirs[i], base.stem, base.ver)]
    IN  IF nm.stem = "" THEN <<>>
        ELSE Dedup(<<nm, base>> \o alias \o short \o inDirs, {})

\* hasModule
hasModule(r, nm) ==
    /\ nm.stem # ""
    /\ \E m \in r.modules : m = nm \/ Base(m) = Base(nm)

\* ---- the process the resolver looks into ------------------------------

\* one library file of the host: the directory it is found in, the path
\* /proc/self/maps shows once it is mapped (the file behind the symbolic
\* links), its place in the sorted module list, the names in its symbol tables
LibFile(home, real, rank, syms) == [home |-> home, real |-> real, rank |-> rank, syms |-> syms]

\* the offset of a symbol in its library
SymOff(base) ==
    CASE base = "puts" -> 1 [] base = "dlclose" -> 2 [] base = "late" -> 3
      [] base = "only" -> 4 [] OTHER -> 5

\* the library files of a host by the paths of the modules they are mapped as
FileOf(w, real) == CHOOSE so \in DOMAIN w.libs : w.libs[so].real = real

\* dlopen(candidate, RTLD_NOW|RTLD_GLOBAL): the library of that name, if the
\* host has it where the name says (a bare name is searched for)
dlopen(w, cand) ==
    IF Base(cand) \in DOMAIN w.libs /\ cand.dir \in {"", w.libs[Base(cand)].home}
    THEN [ok |-> TRUE, w |-> [w EXCEPT !.resident = @ \cup {w.libs[Base(cand)].real}]]
    ELSE [ok |-> FALSE, w |-> w]

\* does the table of a library file hold want, or want@VERSION
\* (matchSymbolOffset)
matchSymbolOffset(syms, want) ==
    \E s \in syms : s = want \/ (want.ver = "" /\ s.base = want.base /\ s.ver # "")

\* resolveFromRuntimeModules: the first module in list order whose file has
\* the symbol; 0 for none
resolveFromRuntimeModules(w, modules, nm) ==
    LET having == {m \in modules : matchSymbolOffset(w.libs[FileOf(w, m)].syms, nm)}
        rk(m) == w.libs[FileOf(w, m)].rank
    IN  IF having = {} THEN 0
        ELSE LET m == CHOOSE x \in having : \A y \in having : rk(x) <= rk(y)
             IN  100 * rk(m) + SymOff(nm.base)

\* resolveWithDLSym: dlsym(NULL, name) over what is mapped now; a name with
\* "@" in it is no symbol name for dlsym
resolveWithDLSym(w, nm) ==
    IF nm.ver # "" THEN 0
    ELSE LET having == {m \in w.resident : SymName(nm.base, "") \in w.libs[FileOf(w, m)].syms}
             rk(m) == w.libs[FileOf(w, m)].rank
         IN  IF having # {}
             THEN LET m == CHOOSE x \in having : \A y \in having : rk(x) <= rk(y)
                  IN  100 * rk(m) + SymOff(nm.base)
             ELSE IF nm.base \in w.extra THEN 900 + SymOff(nm.base) ELSE 0

\* the resolver with the process and the calls it has made
RsState(r, w, tr) == [r |-> r, w |-> w, tr |-> tr]

Did(s, op, arg) == [s EXCEPT !.tr = Append(@, Ev(op, arg))]

\* refreshModules
refreshModules(s) == Did([s EXCEPT !.r.modules = s.w.resident], "refresh", 0)

\* ensureLibraryLoaded, the loop over the candidates (lines 711-735)
RECURSIVE ensureLoop(_, _, _, _)
ensureLoop(s, goarch, nm, cands) ==
    IF cands = <<>> THEN s
    ELSE LET cand == Head(cands)
             o == dlopen(s.w, cand)
             tried == Did([s EXCEPT !.w = o.w], "dlopen", <<cand, o.ok>>)
             opened == refreshModules([tried EXCEPT !.r.opened = @ \cup {cand, nm}])
         IN  IF hasModule(s.r, cand) THEN s
             ELSE IF cand \in s.r.opened THEN ensureLoop(s, goarch, nm, Tail(cands))
             ELSE IF ~o.ok THEN ensureLoop(tried, goarch, nm, Tail(cands))
             ELSE IF hasModule(opened.r, nm) \/ hasModule(opened.r, cand) THEN opened
             ELSE ensureLoop(opened, goarch, nm, Tail(cands))

\* ensureLibraryLoaded
ensureLibraryLoaded(s, goarch, nm) ==
    IF nm.stem = "" THEN s
    ELSE IF hasModule(s.r, nm) THEN s
    ELSE IF s.r.api.nil \/ ~s.r.api.dlopen THEN s
    ELSE ensureLoop(s, goarch, nm, dlopenCandidates(goarch, nm))

\* the resolver's cache: resolved and misses (lines 825-830)
Cached_Never(r, nm) == FALSE

Cached(r, nm) == nm \in DOMAIN r.resolved \/ nm \in r.misses

\* the outcome of one Resolve call
Outcome(s, a) == [s |-> s, addr |-> a]

\* resolver.resolved[name] = addr; return addr, nil
Hit(s, nm, a) == Outcome([s EXCEPT !.r.resolved = (nm :> a) @@ @], a)

\* ensureLibraryLoaded for each of a list of libraries, in order
RECURSIVE ensureAll(_, _, _)
ensureAll(s, goarch, libs) ==
    IF libs = <<>> THEN s
    ELSE ensureAll(ensureLibraryLoaded(s, goarch, Head(libs)), goarch, Tail(libs))

\* symbolResolver.Resolve
RECURSIVE symbolResolver_Resolve(_, _, _)
symbolResolver_Resolve(s, goarch, nm) ==
    IF Cached(s.r, nm)
    THEN Outcome(Did(s, "cache", <<nm, TRUE>>),
                 IF nm \in DOMAIN s.r.resolved THEN s.r.resolved[nm] ELSE 0)
    ELSE
    LET s0 == Did(s, "cache", <<nm, FALSE>>)
        a1 == resolveFromRuntimeModules(s0.w, s0.r.modules, nm)
        s1 == Did(s0, "modules", <<nm, a1>>)
        a2 == IF s1.r.api.nil THEN 0 ELSE resolveWithDLSym(s1.w, nm)
        s2 == IF s1.r.api.nil THEN s1 ELSE Did(s1, "dlsym", <<nm, a2>>)
        again == ~s2.r.api.nil /\ s2.r.api.dlopen
        s3 == ensureAll(s2, goarch, commonLinuxDependencies(goarch))
        a4 == resolveFromRuntimeModules(s3.w, s3.r.modules, nm)
        s4 == Did(s3, "modules", <<nm, a4>>)
        a5 == resolveWithDLSym(s4.w, nm)
        s5 == Did(s4, "dlsym", <<nm, a5>>)
        s6 == IF ~again THEN s2 ELSE s5
        b == IF nm.ver # "" /\ nm.base # "" THEN symbolResolver_Resolve(s6, goarch, SymName(nm.base, "")) ELSE Outcome(s6, 0)
    IN  IF a1 # 0 THEN Hit(s1, nm, a1)
        ELSE IF a2 # 0 THEN Hit(s2, nm, a2)
        ELSE IF again /\ a4 # 0 THEN Hit(s4, nm, a4)
        ELSE IF again /\ a5 # 0 THEN Hit(s5, nm, a5)
        ELSE IF b.addr # 0 THEN Hit(b.s, nm, b.addr)
        ELSE Outcome([b.s EXCEPT !.r.misses = @ \cup {nm}], 0)

\* ---- hosts, resolvers and names ---------------------------------------

MaxResolves == 3

GnuDir == "/lib/x86_64-linux-gnu"

\* a glibc host; linked says whether the library files are the versioned
\* names themselves or symbolic links to libc-2.31.so and libdl-2.31.so
RsWorld(linked) ==
    [libs |->
        (Path("", "libc.so", "6") :>
            LibFile(GnuDir, IF linked THEN Path(GnuDir, "libc-2.31.so", "") ELSE Path(GnuDir, "libc.so", "6"),
                    1, {SymName("puts", ""), SymName("ver", "V")}))
        @@ (Path("", "libdl.so", "2") :>
            LibFile(GnuDir, IF linked THEN Path(GnuDir, "libdl-2.31.so", "") ELSE Path(GnuDir, "libdl.so", "2"),
                    2, {SymName("dlclose", "")}))
        @@ (Path("", "liblate.so", "1") :>
            LibFile("/usr/lib", Path("/usr/lib", "liblate.so", "1"), 3, {SymName("late", "")}))
        @@ (Path("", "ld-linux-x86-64.so", "2") :>
            LibFile("/lib64", Path("/lib64", "ld-linux-x86-64.so", "2"), 4, {})),
     resident |-> {IF linked THEN Path(GnuDir, "libc-2.31.so", "") ELSE Path(GnuDir, "libc.so", "6"),
                   Path("/lib64", "ld-linux-x86-64.so", "2")},
     extra |-> {"only"}]

\* getLinuxDynAPI: none, dlsym alone, dlsym and dlopen
RsApis ==
    {[nil |-> TRUE, dlopen |-> FALSE], [nil |-> FALSE, dlopen |-> FALSE], [nil |-> FALSE, dlopen |-> TRUE]}

\* DT_NEEDED of the image
RsNeeded == {<<>>, <<Path("", "liblate.so", "1")>>, <<Path("/opt", "libdl.so", "2"), Path("", "", "")>>}

\* the symbols relocations ask for
RsNames ==
    {SymName("puts", ""), SymName("dlclose", ""), SymName("late", ""), SymName("only", ""),
     SymName("zz", ""), SymName("puts", "GLIBC"), SymName("zz", "V")}

NoCall == [kind |-> "none"]

\* newSymbolResolver up to primeDependencies (lines 633-643)
RsStart(linked, api, needed) ==
    [stage |-> "priming",
     goarch |-> "amd64",
     s |-> RsState([api |-> api, modules |-> RsWorld(linked).resident,
                    resolved |-> <<>>, misses |-> {}, opened |-> {}],
                   RsWorld(linked), <<>>),
     libs |-> needed \o commonLinuxDependencies("amd64"),
     idx |-> 1,
     n |-> 0,
     first |-> <<>>,
     call |-> NoCall]

\* primeDependencies: the next ensureLibraryLoaded of the loop (lines 653-655)
RsPrime ==
    /\ rs.stage = "priming"
    /\ rs.idx <= Len(rs.libs)
    /\ LET nm == rs.libs[rs.idx]
           s0 == [rs.s EXCEPT !.tr = <<>>]
           s1 == ensureLibraryLoaded(s0, rs.goarch, nm)
       IN  rs' = [rs EXCEPT !.s = s1, !.idx = @ + 1,
                            !.call = [kind |-> "ensure", nm |-> nm,
                                      resident |-> hasModule(s0.r, nm), before |-> s0]]
    /\ UNCHANGED <<libVars, callVars, elfVars, dyVars, shmVars, apVars>>

\* newSymbolResolver returns
RsPrimed ==
    /\ rs.stage = "priming"
    /\ rs.idx > Len(rs.libs)
    /\ rs' = [rs EXCEPT !.stage = "ready", !.call = NoCall]
    /\ UNCHANGED <<libVars, callVars, elfVars, dyVars, shmVars, apVars>>

\* one Resolve call of a relocation
RsResolve(nm) ==
    /\ rs.stage = "ready"
    /\ rs.n < MaxResolves
    /\ LET s0 == [rs.s EXCEPT !.tr = <<>>]
           o == symbolResolver_Resolve(s0, rs.goarch, nm)
       IN  rs' = [rs EXCEPT !.s = o.s, !.n = @ + 1,
                            !.first = IF nm \in DOMAIN @ THEN @ ELSE (nm :> o.addr) @@ @,
                            !.call = [kind |-> "resolve", nm |-> nm, addr |-> o.addr,
                                      repeat |-> nm \in DOMAIN rs.first, before |-> s0]]
    /\ UNCHANGED <<libVars, callVars, elfVars, dyVars, shmVars, apVars>>

\* other code of the process loads a library between two Resolve calls
RsOutsideLoad(so) ==
    /\ rs.stage = "ready"
    /\ so \in DOMAIN rs.s.w.libs
    /\ rs.s.w.libs[so].real \notin rs.s.w.resident
    /\ rs' = [rs EXCEPT !.s.w.resident = @ \cup {rs.s.w.libs[so].real}, !.call = NoCall]
    /\ UNCHANGED <<libVars, callVars, elfVars, dyVars, shmVars, apVars>>

InitResolve ==
    /\ \E linked \in BOOLEAN, api \in RsApis, needed \in RsNeeded : rs = RsStart(linked, api, needed)
    /\ pc = [t \in Threads |-> "idle"]
    /\ name = [t \in Threads |-> <<>>]
    /\ cidx = [t \in Threads |-> 0]
    /\ addr = [t \in Threads |-> 0]
    /\ res = [t \in Threads |-> NoRes]
    /\ late = [t \in Threads |-> FALSE]
    /\ libMu = RWInit
    /\ libClosed = FALSE
    /\ libModule = "mod"
    /\ modMu = RWInit
    /\ module = LibModuleInit
    /\ hist = [freeCalls |-> 0, munmaps |-> 0, closeReturned |-> FALSE]
    /\ call = CallInit
    /\ elf = ElfNone
    /\ ld = LdInit
    /\ dy = DyIdle
    /\ shm = ShmIdle
    /\ ap = ApIdle

NextResolve ==
    \/ RsPrime
    \/ RsPrimed
    \/ \E nm \in RsNames : RsResolve(nm)
    \/ \E so \in DOMAIN RsWorld(TRUE).libs : RsOutsideLoad(so)

SpecResolve == InitResolve /\ [][NextResolve]_vars

\* ---- claims about the resolver ----------------------------------------

\* the places of the calls made during the last call: those of one kind
\* about one name
About(ops, nm) ==
    {i \in DOMAIN rs.s.tr : rs.s.tr[i].op \in ops /\ rs.s.tr[i].arg[1] = nm}

Loads == {i \in DOMAIN rs.s.tr : rs.s.tr[i].op \in {"dlopen", "refresh"}}

\* what the calls about one name were, in the order they were made
RECURSIVE OpsAbout(_, _)
OpsAbout(tr, nm) ==
    IF tr = <<>> THEN <<>>
    ELSE IF Head(tr).op \in {"cache", "modules", "dlsym"} /\ Head(tr).arg[1] = nm
    THEN <<Head(tr).op>> \o OpsAbout(Tail(tr), nm)
    ELSE OpsAbout(Tail(tr), nm)

\* what an event found: the address, or for a cache event whether it hit
Found(e) == IF e.op = "cache" THEN e.arg[2] ELSE e.arg[2] # 0

Searches == {"cache", "modules", "dlsym"}

\* C25: a Resolve call asks the cache, the module files, dlsym, then (with
\* dlopen at hand, after the baseline libraries were opened) the module files
\* and dlsym again, then the base of a name@version name, in that order and
\* no further than the first that finds the name; it returns that address and
\* caches it, or caches the miss and returns 0; a later Resolve of the same
\* name asks the cache alone and returns what the first returned, whatever
\* was loaded in between.
C25_ResolveOrder ==
    (rs.stage = "ready" /\ rs.call.kind = "resolve") =>
        LET c == rs.call
            nm == c.nm
            tr == rs.s.tr
            own == About(Searches, nm)
            base == SymName(nm.base, "")
            ofBase == IF nm.ver = "" THEN {} ELSE About(Searches, base)
            last == CHOOSE i \in own : \A j \in own : j <= i
            second == {i \in About({"modules"}, nm) : \E j \in About({"dlsym"}, nm) : j < i}
        IN  /\ own # {}
            /\ IsPrefix(OpsAbout(tr, nm),
                        IF c.before.r.api.nil THEN <<"cache", "modules">>
                        ELSE IF c.before.r.api.dlopen THEN <<"cache", "modules", "dlsym", "modules", "dlsym">>
                        ELSE <<"cache", "modules", "dlsym">>)
            /\ \A i \in own : Found(tr[i]) => i = last
            /\ \A i \in Loads :
                  \/ \E j \in About({"dlsym"}, nm) : j < i /\ \A k \in second : i < k
                  \/ \A j \in own : j < i
            /\ \A i \in ofBase : \A j \in own : j < i
            /\ (ofBase # {} \/ Loads # {}) => ~Found(tr[last])
            /\ c.addr # 0 =>
                  /\ nm \in DOMAIN rs.s.r.resolved /\ rs.s.r.resolved[nm] = c.addr
                  /\ nm \notin rs.s.r.misses
                  /\ \/ Found(tr[last]) /\ tr[last].op = "cache" /\ c.before.r.resolved[nm] = c.addr
                     \/ Found(tr[last]) /\ tr[last].op # "cache" /\ tr[last].arg[2] = c.addr
                     \/ ~Found(tr[last]) /\ ofBase # {} /\ rs.s.r.resolved[base] = c.addr
            /\ c.addr = 0 =>
                  /\ nm \in rs.s.r.misses
                  /\ nm \notin DOMAIN rs.s.r.resolved
                  /\ \A i \in own : tr[i].op # "cache" => ~Found(tr[i])
            /\ c.repeat =>
                  /\ tr = <<Ev("cache", <<nm, TRUE>>)>>
                  /\ c.addr = rs.first[nm]
                  /\ rs.s.r = c.before.r
                  /\ rs.s.w = c.before.w

\* a name that missed is asked for again after the library that has it was
\* loaded, on a resolver that resolved a name@version name through its base
C25_Witness ==
    /\ rs.stage = "ready"
    /\ rs.call.kind = "resolve"
    /\ rs.call.repeat
    /\ rs.call.addr = 0
    /\ resolveWithDLSym(rs.s.w, rs.call.nm) # 0
    /\ \E v \in DOMAIN rs.first : v.ver # "" /\ rs.first[v] # 0

\* C26 (as claimed): an ensureLibraryLoaded call of dependency priming makes
\* no dlopen call when a module of the same path or basename is resident, and
\* otherwise at most one of its dlopen calls succeeds and no candidate is
\* tried after it.
C26_Claimed_FirstSuccessStops ==
    (rs.stage = "priming" /\ rs.call.kind = "ensure") =>
        LET tr == rs.s.tr
            tried == {i \in DOMAIN tr : tr[i].op = "dlopen"}
        IN  /\ rs.call.resident => tried = {}
            /\ \A i \in tried : tr[i].arg[2] => \A j \in tried : j <= i

====
